---- MODULE Spec2Model ----
(***************************************************************************)
(* State-machine model of TypeScriptLSPClient (src/lsp/client.ts): the     *)
(* client object's fields, the asynchronous start()/stop() calls, the      *)
(* facade operations, and the language-server process with its message     *)
(* connection.  Every action is one run-to-completion step of the          *)
(* single-threaded event loop: the synchronous code between two awaits.    *)
(***************************************************************************)
EXTENDS Integers, Sequences, FiniteSets, TLC

\* ---- bounds of the model ----
MaxCalls == 4        \* calls of start, stop, cleanup and facade operations, and
                     \* notifications pushed by a server, in one run
MaxOps == 2          \* facade calls in flight at once
MaxProbes == 2       \* workspace/symbol probes one start() sends
MaxStarts == 2       \* start() calls that may be in progress at once
MaxItems == 2        \* elements of an array a server answers a request with
MaxFound == 3        \* lines of the project's files that match a searched symbol

Files == {"a.ts", "b.ts"}
Ops == 1..MaxOps
\* every process is spawned by a call of start()
Procs == 1..MaxCalls
Starters == 1..MaxStarts

\* provider fields of ServerCapabilities the modelled operations consult
Providers == {"hoverProvider", "definitionProvider"}
Undefined == {"undefined"}
\* the tool handlers that call the client, and the client operations
ToolKinds == {"lspGetHover", "lspGetDefinitions", "lspFindReferences", "lspGetCompletion",
              "lspGetDiagnostics", "lspFormatDocument", "searchSymbols", "getSymbolDetails"}
\* getSymbolDetails after its getHover: awaiting getDefinition, awaiting getReferences
StageKinds == {"getSymbolDetails/getDefinition", "getSymbolDetails/getReferences"}
OpKinds == {"getHover", "getDefinition", "getReferences", "getCompletion", "renameSymbol"}
              \cup ToolKinds
\* capability sets a server answers initialize with, when tool handlers call
ToolCapabilitySets == {{"hoverProvider"},
                       {"hoverProvider", "definitionProvider", "referencesProvider",
                        "completionProvider", "documentFormattingProvider",
                        "workspaceSymbolProvider"}}
\* capability sets a server answers initialize with
CapabilitySets == {{"hoverProvider", "renameProvider"},
                   Providers \cup {"completionProvider", "referencesProvider"}}

\* ---- pathUtils ----
\* path.resolve, with "/" as the working directory
resolve(path) == "/" \o path
\* uris a server names in publishDiagnostics: those of the files the client
\* works on, and one of a file of the project the client never opens
Uris == {"file:///a.ts", "file:///b.ts", "file:///c.ts"}
\* path.startsWith('file://')
startsWithFileScheme(path) == path \in Uris
normalizeUri(path) == IF startsWithFileScheme(path) THEN path ELSE "file://" \o resolve(path)
pathToUri(path) == normalizeUri(path)
\* diagnostic arrays a server publishes (as sets of diagnostics)
DiagSets == {{}, {"TS2322"}}
\* this.diagnostics.get(uri) is undefined
NoEntry == {"no entry"}

\* ---- JavaScript values a server answers with ----
Null == [t |-> "null"]
Undef == [t |-> "undefined"]
\* an object without an items field: a Location, a Hover, a WorkspaceEdit
Obj(id) == [t |-> "object", id |-> id]
Arr(items) == [t |-> "array", items |-> items]
\* a CompletionList: an object with an items field
List(items) == [t |-> "list", items |-> items]
\* the error a request is rejected with when the server answers with an error
ResponseError(message) == [t |-> "error", message |-> message]
Items == {Obj("x"), Obj("y")}
ItemSeqs == UNION {[1..n -> Items] : n \in 0..MaxItems}
ServerResults == {Null, Undef} \cup Items \cup {Arr(q) : q \in ItemSeqs}
                    \cup {List(q) : q \in ItemSeqs}
\* messages of the errors a server answers a request with
ErrorMessages == {"Method not found", "Unhandled method textDocument/rename",
                  "Rename is not supported here", "Invalid position", "Not Supported"}
\* maxResults a caller of lspGetCompletion supplies (z.number())
MaxResultsValues == (-1)..(MaxItems + 1)

\* !value
falsy(value) == value.t \in {"null", "undefined"}
isArray(value) == value.t = "array"
Min(a, b) == IF a < b THEN a ELSE b
Max(a, b) == IF a < b THEN b ELSE a
\* Array.prototype.slice(0, end) on integers
slice(array, end) ==
    LET n == Len(array.items)
        k == IF end < 0 THEN Max(n + end, 0) ELSE Min(end, n)
    IN  Arr(SubSeq(array.items, 1, k))
\* String.prototype.includes
includes(str, sub) ==
    \E i \in 1..(Len(str) - Len(sub) + 1) : SubSeq(str, i, i + Len(sub) - 1) = sub

NoReq == [conn |-> 0, id |-> 0]
\* what a step received: the capabilities of an initialize result, the
\* diagnostics of a pushed notification, or the answer to an operation's request
Capabilities(caps) == [t |-> "capabilities", set |-> caps]
Diagnostics(diags) == [t |-> "diagnostics", set |-> diags]
NoInp == [method |-> "none", uri |-> "none", value |-> [t |-> "undefined"]]
\* readFileContent(filePath) was called by the step
ReadFile(uri) == [method |-> "readFileContent", uri |-> uri, value |-> [t |-> "undefined"]]
\* readFileContent(filePath) was called by the step and threw
ReadFileFails(uri) == [method |-> "readFileContent", uri |-> uri,
                       value |-> [t |-> "error", message |-> "Failed to read file"]]
NoAbout == [method |-> "none", file |-> "none", pos |-> 0]
NoRet == [caller |-> 0, operation |-> "none", file |-> "none", status |-> "none",
          id |-> -1, about |-> NoAbout, value |-> Undef, cause |-> "none"]

VARIABLES
    connection,          \* this.connection: 0 = undefined, else the process it talks to
    serverProcess,       \* this.serverProcess: 0 = undefined
    serverCapabilities,  \* this.serverCapabilities: Undefined or the truthy providers
    initialized,         \* this.initialized
    documentVersions,    \* this.documentVersions: file -> version, 0 = no entry
    openDocuments,       \* this.openDocuments
    diagnostics,         \* this.diagnostics: uri -> diagnostic set, or NoEntry
    procState,           \* per spawned process: none, running, failed, killed, exited
    spawned,             \* number of processes spawned so far
    seq,                 \* next request identifier of the current connection
    out,                 \* frames the last step handed to the writer of this.connection
    didOpens,            \* per file: didOpen frames written to the current connection
                         \* and not followed by a didClose
    serverReqs,          \* requests a server process has received and not yet answered
    starters,            \* the start() calls
    stopper,             \* the stop() call
    ops,                 \* the facade calls
    ret,                 \* what the last step returned or threw to a caller
    inp,                 \* the initialize result or the notification the last step received
    calls,               \* number of calls made so far
    lspClient            \* the MCP server's lspClient: 0 = undefined, else the number
                         \* of the TypeScriptLSPClient constructed last

vars == <<connection, serverProcess, serverCapabilities, initialized,
          documentVersions, openDocuments, diagnostics, procState,
          spawned, seq, out, didOpens, serverReqs, starters, stopper, ops, ret, inp, calls,
          lspClient>>

clientVars == <<connection, serverProcess, serverCapabilities, initialized,
                documentVersions, openDocuments, diagnostics>>
docVars == <<documentVersions, openDocuments, diagnostics>>
envVars == <<procState, spawned>>

\* ---- frames ----
Request(method, file, id) == [type |-> "request", method |-> method, file |-> file, id |-> id]
Notification(method, file) == [type |-> "notification", method |-> method, file |-> file, id |-> -1]

\* The message connection of process c has seen its streams close: the close
\* event of the streams is delivered together with the exit event of the process.
connClosed(c) == procState[c] \in {"crashed", "exited"}

\* What handing a frame to connection c does: the connection throws once it has
\* seen its stream close; a write to a process that is gone fails; otherwise it
\* is sent.
SendOutcome(c) ==
    IF connClosed(c) THEN "throw"
    ELSE IF procState[c] = "running" THEN "sent"
    ELSE "writeError"

\* A response frame: the server echoes the identifier of the request it answers.
ResponseFor(r, kind) ==
    [conn |-> r.conn, id |-> r.id, kind |-> kind,
     about |-> [method |-> r.method, file |-> r.file, pos |-> r.pos]]

MatchesAny(req, msg) == req.conn = msg.conn
\* The awaited sendRequest promise is settled by the response carrying its identifier.
Matches(req, msg) == req.conn = msg.conn /\ req.id = msg.id

\* ---- supportsFeature ----
ProviderOfHover(feature) == "hoverProvider"
ProviderOf(feature) ==
    CASE feature = "hover" -> "hoverProvider"
      [] feature = "completion" -> "completionProvider"
      [] feature = "definition" -> "definitionProvider"
      [] feature = "references" -> "referencesProvider"
      [] feature = "rename" -> "renameProvider"
      [] feature = "documentSymbol" -> "documentSymbolProvider"
      [] feature = "workspaceSymbol" -> "workspaceSymbolProvider"
      [] feature = "codeAction" -> "codeActionProvider"
      [] feature = "formatting" -> "documentFormattingProvider"
      [] feature = "rangeFormatting" -> "documentRangeFormattingProvider"
      [] feature = "signatureHelp" -> "signatureHelpProvider"
      [] OTHER -> "noProvider"

supportsFeatureAlways(feature) == TRUE
supportsFeature(feature) ==
    IF serverCapabilities = Undefined THEN FALSE
    ELSE IF feature = "diagnostics" THEN TRUE
    ELSE ProviderOf(feature) \in serverCapabilities

\* the operation a caller sees a stage of a tool handler as
OperationOf(kind) == IF kind \in StageKinds THEN "getSymbolDetails" ELSE kind
\* the client operation a tool handler calls after the one it awaits
NextKind(kind) ==
    CASE kind = "getSymbolDetails" -> "getSymbolDetails/getDefinition"
      [] kind = "getSymbolDetails/getDefinition" -> "getSymbolDetails/getReferences"
      [] OTHER -> "none"
\* getWorkspaceSymbols takes a query and opens no document
HasDocument(kind) == kind # "searchSymbols"

FeatureOf(kind) ==
    CASE kind = "getHover" -> "hover"
      [] kind = "lspGetHover" -> "hover"
      [] kind = "lspGetDefinitions" -> "definition"
      [] kind = "lspFindReferences" -> "references"
      [] kind = "lspFormatDocument" -> "formatting"
      [] kind = "searchSymbols" -> "workspaceSymbol"
      [] kind = "getSymbolDetails" -> "hover"
      [] kind = "getSymbolDetails/getDefinition" -> "definition"
      [] kind = "getSymbolDetails/getReferences" -> "references"
      [] kind = "getDefinition" -> "definition"
      [] kind = "getReferences" -> "references"
      [] kind = "getCompletion" -> "completion"
      [] kind = "lspGetCompletion" -> "completion"
      [] kind = "renameSymbol" -> "rename"

MethodOf(kind) ==
    CASE kind = "getHover" -> "textDocument/hover"
      [] kind = "lspGetHover" -> "textDocument/hover"
      [] kind = "lspGetDefinitions" -> "textDocument/definition"
      [] kind = "lspFindReferences" -> "textDocument/references"
      [] kind = "lspFormatDocument" -> "textDocument/formatting"
      [] kind = "searchSymbols" -> "workspace/symbol"
      [] kind = "getSymbolDetails" -> "textDocument/hover"
      [] kind = "getSymbolDetails/getDefinition" -> "textDocument/definition"
      [] kind = "getSymbolDetails/getReferences" -> "textDocument/references"
      [] kind = "getDefinition" -> "textDocument/definition"
      [] kind = "getReferences" -> "textDocument/references"
      [] kind = "getCompletion" -> "textDocument/completion"
      [] kind = "lspGetCompletion" -> "textDocument/completion"
      [] kind = "renameSymbol" -> "textDocument/rename"

isInitializedAlways == TRUE
isInitialized == initialized

\* withErrorHandling: a failure inside the operation surfaces as a TSMCPError
\* carrying the operation's context.
TSMCPError(caller, operation, file, cause) ==
    [caller |-> caller, operation |-> operation, file |-> file, status |-> "TSMCPError",
     id |-> -1, about |-> NoAbout, value |-> Undef, cause |-> cause]

Init ==
    /\ connection = 0
    /\ serverProcess = 0
    /\ serverCapabilities = Undefined
    /\ initialized = FALSE
    /\ documentVersions = [f \in Files |-> 0]
    /\ openDocuments = {}
    /\ diagnostics = [u \in Uris |-> NoEntry]
    /\ procState = [p \in Procs |-> "none"]
    /\ spawned = 0
    /\ seq = 0
    /\ out = <<>>
    /\ didOpens = [f \in Files |-> 0]
    /\ serverReqs = {}
    /\ starters = [s \in Starters |-> [pc |-> "idle", req |-> NoReq, probes |-> 0, expired |-> FALSE]]
    /\ stopper = [pc |-> "idle", req |-> NoReq]
    /\ ops = [o \in Ops |-> [pc |-> "idle", kind |-> "none", file |-> "none", req |-> NoReq,
                              arg |-> 0]]
    /\ ret = NoRet
    /\ inp = NoInp
    /\ calls = 0
    /\ lspClient = 0

\* this.emit("error", error) found no listener: the exception left the event
\* handler uncaught and ended the host process.
HostDown == \E s \in Starters : starters[s].pc = "uncaught"

\* ---- facade operations (getHover, getDefinition) ----
IsOpenNever(uri) == FALSE
\* this.openDocuments.has(uri)
IsOpen(uri) == uri \in openDocuments

openDocumentKeepingVersion(uri) ==
    IF connection = 0 \/ IsOpen(uri)
    THEN UNCHANGED <<documentVersions, openDocuments>>
    ELSE /\ documentVersions' = documentVersions
         /\ openDocuments' = openDocuments \cup {uri}
openDocumentUnregistered(uri) ==
    IF connection = 0 \/ IsOpen(uri)
    THEN UNCHANGED <<documentVersions, openDocuments>>
    ELSE /\ documentVersions' = [documentVersions EXCEPT ![uri] = 1]
         /\ openDocuments' = openDocuments
\* openDocument: registers the document, then sends didOpen.
openDocument(uri) ==
    IF connection = 0 \/ IsOpen(uri)
    THEN UNCHANGED <<documentVersions, openDocuments>>
    ELSE /\ documentVersions' = [documentVersions EXCEPT ![uri] = 1]
         /\ openDocuments' = openDocuments \cup {uri}

ensureDocumentOpenRegistering(uri) == openDocument(uri)
\* ensureDocumentOpen when readFileContent throws: openDocument is not reached.
ensureDocumentOpenUnreadable(uri) == UNCHANGED <<documentVersions, openDocuments>>

Idle == [pc |-> "idle", kind |-> "none", file |-> "none", req |-> NoReq, arg |-> 0]

\* createErrorResponse: what a tool handler returns from its catch block.
ErrorResponse(caller, operation, file, cause) ==
    [caller |-> caller, operation |-> operation, file |-> file, status |-> "errorResponse",
     id |-> -1, about |-> NoAbout, value |-> Undef, cause |-> cause]

ThrownRaw(caller, kind, file, cause) ==
    [TSMCPError(caller, kind, file, cause) EXCEPT !.status = "Error"]
\* What a failure inside an operation reaches the caller as: the client's
\* operations throw TSMCPError, a tool handler catches it and returns an error response.
Thrown(caller, kind, file, cause) ==
    IF kind \in ToolKinds \cup StageKinds
    THEN ErrorResponse(caller, OperationOf(kind), file, cause)
    ELSE TSMCPError(caller, kind, file, cause)

\* The call of o ends by throwing TSMCPError (withErrorHandling's catch).
OpFails(o, kind, f, cause) ==
    /\ ops' = [ops EXCEPT ![o] = Idle]
    /\ ret' = Thrown(o, kind, f, cause)

\* The synchronous part of a client operation, from its connection check to
\* its await: check connection, check capability, ensureDocumentOpen (which
\* reads the file when the document is not open), sendRequest.  readable:
\* whether readFileContent succeeds; rs: the requests the servers hold.
FacadeBody(o, kind, f, readable, arg, rs) ==
    IF connection = 0
    THEN /\ OpFails(o, kind, f, "LSP client not initialized")
         /\ UNCHANGED <<documentVersions, openDocuments, seq, didOpens>>
         /\ serverReqs' = rs
         /\ out' = <<>>
    ELSE IF ~supportsFeature(FeatureOf(kind))
    THEN /\ OpFails(o, kind, f, "not supported")
         /\ UNCHANGED <<documentVersions, openDocuments, seq, didOpens>>
         /\ serverReqs' = rs
         /\ out' = <<>>
    ELSE IF HasDocument(kind) /\ ~IsOpen(f) /\ ~readable
    THEN /\ OpFails(o, kind, f, "Failed to read file")
         /\ ensureDocumentOpenUnreadable(f)
         /\ UNCHANGED <<seq, didOpens>>
         /\ serverReqs' = rs
         /\ out' = <<>>
    ELSE LET needOpen == HasDocument(kind) /\ ~IsOpen(f)
             outcome == SendOutcome(connection)
             opened == IF needOpen
                       THEN <<Notification("textDocument/didOpen", f)>>
                       ELSE <<>>
         IN  /\ IF HasDocument(kind)
                THEN openDocument(f)
                ELSE UNCHANGED <<documentVersions, openDocuments>>
             /\ IF outcome = "throw"
                THEN /\ OpFails(o, kind, f, "Connection is closed")
                     /\ out' = <<>>
                     /\ serverReqs' = rs
                     /\ UNCHANGED <<seq, didOpens>>
                ELSE /\ out' = opened \o <<Request(MethodOf(kind), f, seq)>>
                     /\ didOpens' = IF needOpen
                                    THEN [didOpens EXCEPT ![f] = @ + 1]
                                    ELSE didOpens
                     /\ seq' = seq + 1
                     /\ IF outcome = "sent"
                        THEN /\ ops' = [ops EXCEPT ![o] =
                                   [pc |-> "waiting", kind |-> kind, file |-> f,
                                    req |-> [conn |-> connection, id |-> seq],
                                    arg |-> arg]]
                             /\ ret' = NoRet
                             /\ serverReqs' = rs \cup
                                   {[conn |-> connection, id |-> seq,
                                     method |-> MethodOf(kind), file |-> f, pos |-> o]}
                        ELSE /\ OpFails(o, kind, f, "write failed")
                             /\ serverReqs' = rs

\* A call of a client operation or of a tool handler.  A tool handler first
\* tests isInitialized() and returns an error response when it is false; arg:
\* maxResults of lspGetCompletion and searchSymbols.
Facade(o, kind, f, readable, arg) ==
    /\ ~HostDown
    /\ UNCHANGED lspClient
    /\ inp' = IF /\ ~(kind \in ToolKinds /\ ~isInitialized)
                 /\ connection # 0
                 /\ supportsFeature(FeatureOf(kind))
                 /\ HasDocument(kind)
                 /\ ~IsOpen(f)
              THEN IF readable THEN ReadFile(pathToUri(f)) ELSE ReadFileFails(pathToUri(f))
              ELSE NoInp
    /\ calls < MaxCalls
    /\ calls' = calls + 1
    /\ ops[o].pc = "idle"
    /\ \A q \in Ops : q < o => ops[q].pc # "idle"
    /\ UNCHANGED <<connection, serverProcess, serverCapabilities, initialized,
                   diagnostics, envVars, starters, stopper>>
    /\ IF kind \in ToolKinds /\ ~isInitialized
       THEN /\ OpFails(o, kind, f, "LSP client is not initialized")
            /\ UNCHANGED <<documentVersions, openDocuments, seq, didOpens, serverReqs>>
            /\ out' = <<>>
       ELSE FacadeBody(o, kind, f, readable, arg, serverReqs)

getHover(o, f, readable) == Facade(o, "getHover", f, readable, 0)
getDefinition(o, f, readable) == Facade(o, "getDefinition", f, readable, 0)
getReferences(o, f, readable) == Facade(o, "getReferences", f, readable, 0)
getCompletion(o, f, readable) == Facade(o, "getCompletion", f, readable, 0)
renameSymbol(o, f, readable) == Facade(o, "renameSymbol", f, readable, 0)
lspGetCompletion(o, f, readable, maxResults) ==
    Facade(o, "lspGetCompletion", f, readable, maxResults)
lspGetHover(o, f, readable) == Facade(o, "lspGetHover", f, readable, 0)
lspGetDefinitions(o, f, readable) == Facade(o, "lspGetDefinitions", f, readable, 0)
lspFindReferences(o, f, readable) == Facade(o, "lspFindReferences", f, readable, 0)
lspFormatDocument(o, f, readable) == Facade(o, "lspFormatDocument", f, readable, 0)
\* searchSymbols calls getWorkspaceSymbols(query): no file is involved
searchSymbols(o, maxResults) == Facade(o, "searchSymbols", "none", TRUE, maxResults)
\* getSymbolDetails calls getHover, then getDefinition, then getReferences
getSymbolDetails(o, f, readable) == Facade(o, "getSymbolDetails", f, readable, 0)

\* ---- what an operation makes of the server's result ----
getDefinitionResultBare(result) == IF falsy(result) THEN Arr(<<>>) ELSE result
\* getDefinition lines 406-409
getDefinitionResult(result) ==
    IF falsy(result) THEN Arr(<<>>)
    ELSE IF isArray(result) THEN result
    ELSE Arr(<<result>>)
\* getReferences line 440: result || []
getReferencesResult(result) == IF falsy(result) THEN Arr(<<>>) ELSE result
\* getCompletion lines 515-518
getCompletionResult(result) ==
    IF falsy(result) THEN Arr(<<>>)
    ELSE IF isArray(result) THEN result
    ELSE IF result.t = "list" THEN Arr(result.items)
    ELSE Arr(<<>>)
\* lspGetCompletion line 244: allCompletions.slice(0, maxResults)
lspGetCompletionResult(result, maxResults) == slice(getCompletionResult(result), maxResults)

isNotSupportedErrorNarrow(message) == includes(message, "not supported")
\* isNotSupportedError (errorHandler.ts 82-91)
isNotSupportedError(message) ==
    \/ includes(message, "not supported")
    \/ includes(message, "Method not found")
    \/ includes(message, "Unhandled method")

\* formatDocument line 551: result || []
formatDocumentResult(result) == IF falsy(result) THEN Arr(<<>>) ELSE result

\* The value an operation returns for a server result.  What getSymbolDetails
\* returns is built from the file system as well and is left undefined here;
\* searchSymbols has its own step.
Returned(kind, result, arg) ==
    CASE kind = "getDefinition" -> getDefinitionResult(result)
      [] kind = "getReferences" -> getReferencesResult(result)
      [] kind = "getCompletion" -> getCompletionResult(result)
      [] kind = "lspGetCompletion" -> lspGetCompletionResult(result, arg)
      [] kind = "lspGetDefinitions" -> getDefinitionResult(result)
      [] kind = "lspFindReferences" -> getReferencesResult(result)
      [] kind = "lspFormatDocument" -> formatDocumentResult(result)
      [] kind = "searchSymbols" -> Undef
      [] kind \in StageKinds -> Undef
      [] OTHER -> result

\* The response to request r arrives and resumes the facade call awaiting it:
\* a result (payload a value) or an error (payload its message).  renameSymbol
\* catches an error that isNotSupportedError recognises and returns null.
OpResponse(o, r, kind, payload) ==
    /\ ~HostDown
    /\ UNCHANGED lspClient
    /\ inp' = [method |-> r.method, uri |-> "none",
               value |-> IF kind = "result" THEN payload ELSE ResponseError(payload)]
    /\ UNCHANGED calls
    /\ r \in serverReqs
    /\ procState[r.conn] = "running"
    /\ ops[o].pc = "waiting"
    /\ Matches(ops[o].req, ResponseFor(r, kind))
    /\ kind = "error" \/ NextKind(ops[o].kind) = "none"
    /\ kind = "error" \/ ops[o].kind # "searchSymbols"
    /\ serverReqs' = serverReqs \ {r}
    /\ ops' = [ops EXCEPT ![o] = Idle]
    /\ ret' = IF kind = "result" \/ (ops[o].kind = "renameSymbol" /\ isNotSupportedError(payload))
              THEN [caller |-> o, operation |-> OperationOf(ops[o].kind), file |-> ops[o].file,
                    status |-> "ok", id |-> ResponseFor(r, kind).id,
                    about |-> ResponseFor(r, kind).about,
                    value |-> IF kind = "result"
                              THEN Returned(ops[o].kind, payload, ops[o].arg)
                              ELSE Null,
                    cause |-> "none"]
              ELSE Thrown(o, ops[o].kind, ops[o].file, payload)
    /\ out' = <<>>
    /\ UNCHANGED <<clientVars, envVars, seq, didOpens, starters, stopper>>

\* getSymbolDetails: the result of its getHover or getDefinition arrives, and
\* the handler calls the next client operation on the same file and position.
getSymbolDetailsNext(o, r, result, readable) ==
    /\ ~HostDown
    /\ UNCHANGED lspClient
    /\ inp' = [method |-> r.method, uri |-> "none", value |-> result]
    /\ UNCHANGED calls
    /\ r \in serverReqs
    /\ procState[r.conn] = "running"
    /\ ops[o].pc = "waiting"
    /\ Matches(ops[o].req, ResponseFor(r, "result"))
    /\ NextKind(ops[o].kind) # "none"
    /\ UNCHANGED <<connection, serverProcess, serverCapabilities, initialized,
                   diagnostics, envVars, starters, stopper>>
    /\ FacadeBody(o, NextKind(ops[o].kind), ops[o].file, readable, ops[o].arg,
                  serverReqs \ {r})

\* getWorkspaceSymbols line 486: result || []
getWorkspaceSymbolsResult(result) == IF falsy(result) THEN Arr(<<>>) ELSE result
\* the lines of the project's files that match the query, in the order
\* walkDirectory meets them
FoundLines == <<Obj("Found in a.ts:1"), Obj("Found in a.ts:2"), Obj("Found in b.ts:1")>>
\* searchSymbolsInFiles: walkDirectory and searchInFile stop as soon as
\* results.length >= maxResults; found: the number of matching lines.
searchSymbolsInFiles(found, maxResults) ==
    SubSeq(FoundLines, 1, IF maxResults <= 0 THEN 0 ELSE Min(found, maxResults))

\* searchSymbols: the result of its getWorkspaceSymbols arrives; the handler
\* truncates it and, when nothing is left, searches the files of the project.
\* A result that is not an array has no slice method: the handler's catch
\* returns an error response.
searchSymbolsResult(o, r, result, found) ==
    LET workspaceSymbols == getWorkspaceSymbolsResult(result)
        symbols == slice(workspaceSymbols, ops[o].arg).items
        manual == isArray(workspaceSymbols) /\ Len(symbols) = 0
    IN  /\ ~HostDown
        /\ UNCHANGED lspClient
        /\ inp' = [method |-> r.method, uri |-> IF manual THEN "/" ELSE "none",
                   value |-> result]
        /\ UNCHANGED calls
        /\ r \in serverReqs
        /\ procState[r.conn] = "running"
        /\ ops[o].pc = "waiting"
        /\ ops[o].kind = "searchSymbols"
        /\ Matches(ops[o].req, ResponseFor(r, "result"))
        /\ serverReqs' = serverReqs \ {r}
        /\ ops' = [ops EXCEPT ![o] = Idle]
        /\ ret' = IF ~isArray(workspaceSymbols)
                  THEN Thrown(o, "searchSymbols", ops[o].file,
                              "workspaceSymbols.slice is not a function")
                  ELSE [caller |-> o, operation |-> "searchSymbols", file |-> ops[o].file,
                        status |-> "ok", id |-> ResponseFor(r, "result").id,
                        about |-> ResponseFor(r, "result").about,
                        value |-> Arr(IF manual
                                      THEN searchSymbolsInFiles(found, ops[o].arg)
                                      ELSE symbols),
                        cause |-> "none"]
        /\ out' = <<>>
        /\ UNCHANGED <<clientVars, envVars, seq, didOpens, starters, stopper>>

\* lspGetDiagnostics (part_005 285-338): isInitialized(), then getDiagnostics.
lspGetDiagnostics(f) ==
    /\ ~HostDown
    /\ UNCHANGED lspClient
    /\ calls < MaxCalls
    /\ calls' = calls + 1
    /\ inp' = NoInp
    /\ out' = <<>>
    /\ ret' = IF ~isInitialized
              THEN ErrorResponse(0, "lspGetDiagnostics", f, "LSP client is not initialized")
              ELSE [NoRet EXCEPT !.operation = "lspGetDiagnostics", !.file = f,
                                 !.status = "ok",
                                 !.value = [t |-> "diagnostics",
                                            set |-> IF diagnostics[pathToUri(f)] = NoEntry
                                                    THEN {} ELSE diagnostics[pathToUri(f)]]]
    /\ UNCHANGED <<clientVars, envVars, seq, didOpens, serverReqs, starters, stopper, ops>>

\* ---- start() ----
NoStart == [pc |-> "idle", req |-> NoReq, probes |-> 0, expired |-> FALSE]
Alive(rs, ps) == {r \in rs : ps[r.conn] = "running"}

\* start(): the catch block turns any failure into TSMCPError(operation "start").
StartFails(s, cause) ==
    /\ starters' = [starters EXCEPT ![s] = NoStart]
    /\ ret' = TSMCPError(s, "start", "none", cause)

StartOk(s) ==
    [caller |-> s, operation |-> "start", file |-> "none", status |-> "ok",
     id |-> -1, about |-> NoAbout, value |-> Undef, cause |-> "none"]

\* EventEmitter.emit("error") without a listener throws out of the handler.
Uncaught(s) ==
    [caller |-> s, operation |-> "start", file |-> "none", status |-> "uncaughtException",
     id |-> -1, about |-> NoAbout, value |-> Undef, cause |-> "Unhandled error"]

\* start() line 101: initialize() has returned.
StartDone(s) ==
    /\ initialized' = TRUE
    /\ starters' = [starters EXCEPT ![s] = NoStart]
    /\ ret' = StartOk(s)

\* start() up to its first await: spawn, create the connection, register the
\* handlers, listen, send the initialize request.  spawnOk: whether the
\* executable could be spawned; listener: whether the caller has registered an
\* "error" listener on the client, which the handler of lines 85-88 emits to.
startCall(s, spawnOk, listener, concurrent) ==
    /\ ~HostDown
    /\ inp' = NoInp
    /\ calls < MaxCalls
    /\ calls' = calls + 1
    /\ starters[s].pc = "idle"
    /\ \A t \in Starters : t < s => starters[t].pc # "idle"
    /\ concurrent \/ \A t \in Starters : starters[t].pc = "idle"
    /\ UNCHANGED <<serverCapabilities, initialized, docVars, ops, stopper>>
    /\ IF initialized
       THEN /\ ret' = StartOk(s)
            /\ UNCHANGED starters
            /\ out' = <<>>
            /\ UNCHANGED <<connection, serverProcess, procState, spawned, seq, didOpens, serverReqs>>
       ELSE /\ LET p == spawned + 1
               IN  /\ spawned' = p
                   /\ procState' = [procState EXCEPT ![p] = IF spawnOk THEN "running" ELSE "failed"]
                   /\ serverProcess' = p
                   /\ connection' = p
                   /\ out' = <<Request("initialize", "none", 0)>>
                   /\ didOpens' = [f \in Files |-> 0]
                   /\ seq' = 1
                   /\ IF spawnOk
                      THEN /\ starters' = [starters EXCEPT ![s] =
                                 [pc |-> "awaitInit", req |-> [conn |-> p, id |-> 0],
                                  probes |-> 0, expired |-> FALSE]]
                           /\ ret' = NoRet
                           /\ serverReqs' = serverReqs \cup
                                 {[conn |-> p, id |-> 0, method |-> "initialize",
                                   file |-> "none", pos |-> 0]}
                      ELSE /\ IF listener
                              THEN StartFails(s, "write failed")
                              ELSE /\ starters' = [starters EXCEPT ![s] =
                                         [NoStart EXCEPT !.pc = "uncaught"]]
                                   /\ ret' = Uncaught(s)
                           /\ UNCHANGED serverReqs

\* start() called on the client the MCP server holds, or on a client of its own
start(s, spawnOk, listener, concurrent) ==
    /\ startCall(s, spawnOk, listener, concurrent)
    /\ UNCHANGED lspClient

hasClientInitialized == lspClient # 0 /\ isInitialized
\* ensureLSPClient line 381: lspClient is not undefined
hasClient == lspClient # 0
\* ensureLSPClient (server 379-388) when there is no client: construct one and
\* call start() on it, up to the first await of start().
ensureLSPClient(s, spawnOk, listener) ==
    /\ ~hasClient
    /\ lspClient' = lspClient + 1
    /\ startCall(s, spawnOk, listener, TRUE)
\* A tool invoked when the server holds a client: ensureLSPClient does
\* nothing, and the handler calls the tool on the client, whatever its state
\* (lsp_get_hover, server 173-179).
lsp_get_hover(o, f, readable) ==
    /\ hasClient
    /\ lspGetHover(o, f, readable)

\* this.connection.sendRequest hands its frame to a running process.
CanSend ==
    /\ connection # 0
    /\ SendOutcome(connection) = "sent"

\* waitForProjectReady, head of the while loop (line 241), with rs the requests
\* the servers still hold: leave the loop once the timeout has elapsed, else
\* send a probe; a send that throws or is rejected is caught and the loop spins.
ProbeHead(s, rs) ==
    IF starters[s].expired
    THEN /\ StartDone(s)
         /\ serverReqs' = rs
         /\ out' = <<>>
         /\ UNCHANGED seq
    ELSE IF CanSend
    THEN /\ starters[s].probes < MaxProbes
         /\ out' = <<Request("workspace/symbol", "none", seq)>>
         /\ seq' = seq + 1
         /\ starters' = [starters EXCEPT ![s] =
               [@ EXCEPT !.pc = "awaitProbe", !.req = [conn |-> connection, id |-> seq],
                         !.probes = @ + 1]]
         /\ serverReqs' = rs \cup {[conn |-> connection, id |-> seq,
                                    method |-> "workspace/symbol", file |-> "none", pos |-> 0]}
         /\ ret' = NoRet
         /\ UNCHANGED initialized
    ELSE /\ starters' = [starters EXCEPT ![s] = [@ EXCEPT !.pc = "probeLoop", !.req = NoReq]]
         /\ serverReqs' = rs
         /\ out' = <<>>
         /\ ret' = NoRet
         /\ UNCHANGED <<seq, initialized>>

\* initialize(): the initialize response arrives (lines 225-233).
InitializeResponse(s, r, kind, caps) ==
    /\ ~HostDown
    /\ UNCHANGED lspClient
    /\ inp' = IF kind = "error" THEN NoInp
              ELSE [method |-> "initialize", uri |-> "none", value |-> Capabilities(caps)]
    /\ UNCHANGED calls
    /\ r \in serverReqs
    /\ procState[r.conn] = "running"
    /\ starters[s].pc = "awaitInit"
    /\ Matches(starters[s].req, ResponseFor(r, kind))
    /\ UNCHANGED <<connection, serverProcess, docVars, envVars, didOpens, ops, stopper>>
    /\ IF kind = "error"
       THEN /\ StartFails(s, "server error")
            /\ serverReqs' = serverReqs \ {r}
            /\ out' = <<>>
            /\ UNCHANGED <<serverCapabilities, initialized, seq>>
       ELSE /\ serverCapabilities' = caps
            /\ IF connection = 0 \/ SendOutcome(connection) = "throw"
               THEN /\ StartFails(s, "Connection is closed")
                    /\ serverReqs' = serverReqs \ {r}
                    /\ out' = <<>>
                    /\ UNCHANGED <<initialized, seq>>
               ELSE IF SendOutcome(connection) = "sent"
               THEN /\ out' = <<Notification("initialized", "none"),
                                 Request("workspace/symbol", "none", seq)>>
                    /\ seq' = seq + 1
                    /\ starters' = [starters EXCEPT ![s] =
                          [@ EXCEPT !.pc = "awaitProbe",
                                    !.req = [conn |-> connection, id |-> seq],
                                    !.probes = 1]]
                    /\ serverReqs' = (serverReqs \ {r}) \cup
                          {[conn |-> connection, id |-> seq, method |-> "workspace/symbol",
                            file |-> "none", pos |-> 0]}
                    /\ ret' = NoRet
                    /\ UNCHANGED initialized
               ELSE /\ out' = <<Notification("initialized", "none")>>
                    /\ starters' = [starters EXCEPT ![s] =
                          [@ EXCEPT !.pc = "probeLoop", !.req = NoReq]]
                    /\ serverReqs' = serverReqs \ {r}
                    /\ ret' = NoRet
                    /\ UNCHANGED <<initialized, seq>>

\* waitForProjectReady: a probe response arrives (lines 244-262).
ProbeResponse(s, r, kind) ==
    /\ ~HostDown
    /\ UNCHANGED lspClient
    /\ inp' = NoInp
    /\ UNCHANGED calls
    /\ r \in serverReqs
    /\ procState[r.conn] = "running"
    /\ starters[s].pc = "awaitProbe"
    /\ Matches(starters[s].req, ResponseFor(r, kind))
    /\ UNCHANGED <<connection, serverProcess, serverCapabilities, docVars, envVars,
                   didOpens, ops, stopper>>
    /\ IF kind = "result"
       THEN /\ StartDone(s)
            /\ serverReqs' = serverReqs \ {r}
            /\ out' = <<>>
            /\ UNCHANGED seq
       ELSE IF kind = "No Project"
       THEN /\ starters' = [starters EXCEPT ![s] = [@ EXCEPT !.pc = "sleep", !.req = NoReq]]
            /\ serverReqs' = serverReqs \ {r}
            /\ out' = <<>>
            /\ ret' = NoRet
            /\ UNCHANGED <<initialized, seq>>
       ELSE ProbeHead(s, serverReqs \ {r})

\* waitForProjectReady: the 500 ms retry delay is over (line 257).
ProbeRetry(s) ==
    /\ ~HostDown
    /\ UNCHANGED lspClient
    /\ inp' = NoInp
    /\ UNCHANGED calls
    /\ starters[s].pc = "sleep"
    /\ ProbeHead(s, serverReqs)
    /\ UNCHANGED <<connection, serverProcess, serverCapabilities, docVars, envVars,
                   didOpens, ops, stopper>>

\* waitForProjectReady: the loop spins on failing sends until it can send or
\* the timeout has elapsed.
ProbeLoop(s) ==
    /\ ~HostDown
    /\ UNCHANGED lspClient
    /\ inp' = NoInp
    /\ UNCHANGED calls
    /\ starters[s].pc = "probeLoop"
    /\ starters[s].expired \/ CanSend
    /\ ProbeHead(s, serverReqs)
    /\ UNCHANGED <<connection, serverProcess, serverCapabilities, docVars, envVars,
                   didOpens, ops, stopper>>

\* timeoutMs have passed since waitForProjectReady took startTime (line 241).
ProbeDeadline(s) ==
    /\ ~HostDown
    /\ UNCHANGED lspClient
    /\ inp' = NoInp
    /\ UNCHANGED calls
    /\ starters[s].pc \in {"awaitProbe", "sleep", "probeLoop"}
    /\ ~starters[s].expired
    /\ starters' = [starters EXCEPT ![s] = [@ EXCEPT !.expired = TRUE]]
    /\ out' = <<>>
    /\ ret' = NoRet
    /\ UNCHANGED <<clientVars, envVars, seq, didOpens, serverReqs, ops, stopper>>

\* ---- stop() ----
StopClearKeepingDiagnostics ==
    /\ procState' = IF serverProcess # 0 /\ procState[serverProcess] = "running"
                    THEN [procState EXCEPT ![serverProcess] = "killed"]
                    ELSE procState
    /\ initialized' = FALSE
    /\ connection' = 0
    /\ serverProcess' = 0
    /\ serverCapabilities' = Undefined
    /\ documentVersions' = [f \in Files |-> 0]
    /\ openDocuments' = {}
    /\ diagnostics' = diagnostics
\* stop() lines 121-131: kill the process, clear every field.
StopClear ==
    /\ procState' = IF serverProcess # 0 /\ procState[serverProcess] = "running"
                    THEN [procState EXCEPT ![serverProcess] = "killed"]
                    ELSE procState
    /\ initialized' = FALSE
    /\ connection' = 0
    /\ serverProcess' = 0
    /\ serverCapabilities' = Undefined
    /\ documentVersions' = [f \in Files |-> 0]
    /\ openDocuments' = {}
    /\ diagnostics' = [u \in Uris |-> NoEntry]

StopOk ==
    [caller |-> 0, operation |-> "stop", file |-> "none", status |-> "ok",
     id |-> -1, about |-> NoAbout, value |-> Undef, cause |-> "none"]

\* stop() up to its await: send shutdown; without a connection, or when the send
\* throws or is rejected, go on to kill and clear.
stop ==
    /\ ~HostDown
    /\ UNCHANGED lspClient
    /\ inp' = NoInp
    /\ calls < MaxCalls
    /\ calls' = calls + 1
    /\ stopper.pc = "idle"
    /\ UNCHANGED <<spawned, didOpens, starters, ops>>
    /\ IF connection # 0 /\ SendOutcome(connection) = "sent"
       THEN /\ out' = <<Request("shutdown", "none", seq)>>
            /\ seq' = seq + 1
            /\ stopper' = [pc |-> "awaitShutdown", req |-> [conn |-> connection, id |-> seq]]
            /\ serverReqs' = serverReqs \cup
                  {[conn |-> connection, id |-> seq, method |-> "shutdown",
                    file |-> "none", pos |-> 0]}
            /\ ret' = NoRet
            /\ UNCHANGED <<clientVars, procState>>
       ELSE /\ StopClear
            /\ stopper' = [pc |-> "idle", req |-> NoReq]
            /\ ret' = StopOk
            /\ serverReqs' = Alive(serverReqs, procState')
            /\ IF connection # 0 /\ SendOutcome(connection) = "writeError"
               THEN out' = <<Request("shutdown", "none", seq)>> /\ seq' = seq + 1
               ELSE out' = <<>> /\ UNCHANGED seq

\* stop(): the shutdown response arrives; send exit (a failure is caught), kill, clear.
ShutdownResponse(r, kind) ==
    /\ ~HostDown
    /\ UNCHANGED lspClient
    /\ inp' = NoInp
    /\ UNCHANGED calls
    /\ r \in serverReqs
    /\ procState[r.conn] = "running"
    /\ stopper.pc = "awaitShutdown"
    /\ Matches(stopper.req, ResponseFor(r, kind))
    /\ out' = IF kind = "result" /\ connection # 0 /\ SendOutcome(connection) # "throw"
              THEN <<Notification("exit", "none")>>
              ELSE <<>>
    /\ StopClear
    /\ stopper' = [pc |-> "idle", req |-> NoReq]
    /\ ret' = StopOk
    /\ serverReqs' = Alive(serverReqs \ {r}, procState')
    /\ UNCHANGED <<spawned, seq, didOpens, starters, ops>>

\* ---- diagnostics ----
publishDiagnosticsMerging(p, uri, diags) ==
    /\ ~HostDown
    /\ UNCHANGED lspClient
    /\ calls < MaxCalls
    /\ calls' = calls + 1
    /\ procState[p] \in {"running", "killed"}
    /\ diagnostics' = [diagnostics EXCEPT ![uri] = IF @ = NoEntry THEN diags ELSE @ \cup diags]
    /\ inp' = [method |-> "textDocument/publishDiagnostics", uri |-> uri,
               value |-> Diagnostics(diags)]
    /\ out' = <<>>
    /\ ret' = NoRet
    /\ UNCHANGED <<connection, serverProcess, serverCapabilities, initialized,
                   documentVersions, openDocuments, envVars, seq, didOpens, serverReqs,
                   starters, stopper, ops>>
publishDiagnosticsResetting(p, uri, diags) ==
    /\ ~HostDown
    /\ UNCHANGED lspClient
    /\ calls < MaxCalls
    /\ calls' = calls + 1
    /\ procState[p] \in {"running", "killed"}
    /\ diagnostics' = [u \in Uris |-> IF u = uri THEN diags ELSE NoEntry]
    /\ inp' = [method |-> "textDocument/publishDiagnostics", uri |-> uri,
               value |-> Diagnostics(diags)]
    /\ out' = <<>>
    /\ ret' = NoRet
    /\ UNCHANGED <<connection, serverProcess, serverCapabilities, initialized,
                   documentVersions, openDocuments, envVars, seq, didOpens, serverReqs,
                   starters, stopper, ops>>
publishDiagnosticsSettling(p, uri, diags) ==
    /\ ~HostDown
    /\ UNCHANGED lspClient
    /\ calls < MaxCalls
    /\ calls' = calls + 1
    /\ procState[p] \in {"running", "killed"}
    /\ diagnostics' = [diagnostics EXCEPT ![uri] = diags]
    /\ inp' = [method |-> "textDocument/publishDiagnostics", uri |-> uri,
               value |-> Diagnostics(diags)]
    /\ out' = <<>>
    /\ ret' = NoRet
    /\ UNCHANGED <<connection, serverProcess, serverCapabilities, initialized,
                   documentVersions, openDocuments, envVars, seq, didOpens, serverReqs,
                   starters, stopper>>
    /\ ops' = [o \in Ops |-> Idle]
\* this.emit(event, params) with a listener registered for the event: the
\* listener runs inside emit and sees the client as the handler has left it so
\* far.  cache: what this.diagnostics holds for the uri of the event.
emitEarly(event, uri, params) ==
    ret' = [NoRet EXCEPT !.operation = "emit", !.status = event, !.file = uri,
                         !.value = [t |-> "listener", params |-> params,
                                    cache |-> IF event = "diagnostics"
                                              THEN diagnostics[uri] ELSE {},
                                    initialized |-> initialized]]
emit(event, uri, params) ==
    ret' = [NoRet EXCEPT !.operation = "emit", !.status = event, !.file = uri,
                         !.value = [t |-> "listener", params |-> params,
                                    cache |-> IF event = "diagnostics"
                                              THEN diagnostics'[uri] ELSE {},
                                    initialized |-> initialized']]

\* The publishDiagnostics handler of the connection to process p (lines 76-82).
\* A process that stop() has killed may have written the notification before.
publishDiagnosticsHandler(p, uri, diags) ==
    /\ ~HostDown
    /\ UNCHANGED lspClient
    /\ calls < MaxCalls
    /\ calls' = calls + 1
    /\ procState[p] \in {"running", "killed"}
    /\ diagnostics' = [diagnostics EXCEPT ![uri] = diags]
    /\ inp' = [method |-> "textDocument/publishDiagnostics", uri |-> uri,
               value |-> Diagnostics(diags)]
    /\ out' = <<>>
    /\ UNCHANGED <<connection, serverProcess, serverCapabilities, initialized,
                   documentVersions, openDocuments, envVars, seq, didOpens, serverReqs,
                   starters, stopper, ops>>
\* the handler when nothing listens to the client's "diagnostics" event
publishDiagnostics(p, uri, diags) ==
    /\ publishDiagnosticsHandler(p, uri, diags)
    /\ ret' = NoRet
\* the handler when a listener is registered for the "diagnostics" event
publishDiagnosticsObserved(p, uri, diags) ==
    /\ publishDiagnosticsHandler(p, uri, diags)
    /\ emit("diagnostics", uri, diags)

\* getDiagnostics: this.diagnostics.get(uri) || []
getDiagnostics(filePath) ==
    IF diagnostics[pathToUri(filePath)] = NoEntry THEN {} ELSE diagnostics[pathToUri(filePath)]

getDiagnosticsCallOpening(filePath) ==
    /\ ~HostDown
    /\ UNCHANGED lspClient
    /\ calls < MaxCalls
    /\ calls' = calls + 1
    /\ inp' = NoInp
    /\ out' = <<>>
    /\ ret' = [NoRet EXCEPT !.operation = "getDiagnostics", !.file = filePath,
                            !.status = "ok", !.value = Diagnostics(getDiagnostics(filePath))]
    /\ openDocuments' = openDocuments \cup {filePath}
    /\ UNCHANGED <<connection, serverProcess, serverCapabilities, initialized,
                   documentVersions, diagnostics, envVars, seq, didOpens, serverReqs,
                   starters, stopper, ops>>
\* A call of getDiagnostics(filePath) (lines 522-525): it returns the cached
\* value and touches nothing.
getDiagnosticsCall(filePath) ==
    /\ ~HostDown
    /\ UNCHANGED lspClient
    /\ calls < MaxCalls
    /\ calls' = calls + 1
    /\ inp' = NoInp
    /\ out' = <<>>
    /\ ret' = [NoRet EXCEPT !.operation = "getDiagnostics", !.file = filePath,
                            !.status = "ok", !.value = Diagnostics(getDiagnostics(filePath))]
    /\ UNCHANGED <<clientVars, envVars, seq, didOpens, serverReqs, starters, stopper, ops>>

\* ---- cleanup() / closeDocument ----
closeDocumentDiagnosticsKept(closing) == diagnostics
\* closeDocument line 340, for every document of closing: this.diagnostics.delete(uri)
closeDocumentDiagnostics(closing) ==
    [u \in Uris |-> IF \E f \in closing : pathToUri(f) = u THEN NoEntry ELSE diagnostics[u]]
\* closeDocument for every open document, in the order the set yields them.
\* On a connection that has seen its stream close the first sendNotification
\* throws before anything is deleted, and cleanup() throws with it.
cleanup(order) ==
    /\ ~HostDown
    /\ UNCHANGED lspClient
    /\ inp' = NoInp
    /\ calls < MaxCalls
    /\ calls' = calls + 1
    /\ connection # 0
    /\ openDocuments # {}
    /\ Len(order) = Cardinality(openDocuments)
    /\ {order[i] : i \in 1..Len(order)} = openDocuments
    /\ UNCHANGED <<connection, serverProcess, serverCapabilities, initialized, envVars,
                   seq, serverReqs, starters, stopper, ops>>
    /\ IF SendOutcome(connection) = "throw"
       THEN /\ out' = <<>>
            /\ ret' = [NoRet EXCEPT !.operation = "cleanup", !.status = "Error",
                                    !.cause = "Connection is closed"]
            /\ UNCHANGED <<docVars, didOpens>>
       ELSE /\ out' = [i \in 1..Len(order) |-> Notification("textDocument/didClose", order[i])]
            /\ didOpens' = [f \in Files |-> IF f \in openDocuments THEN 0 ELSE didOpens[f]]
            /\ openDocuments' = {}
            /\ documentVersions' = [f \in Files |->
                                      IF f \in openDocuments THEN 0 ELSE documentVersions[f]]
            /\ diagnostics' = closeDocumentDiagnostics(openDocuments)
            /\ ret' = [NoRet EXCEPT !.operation = "cleanup", !.status = "ok"]

\* ---- the server process ----
\* The process exits on its own; the "exit" handler runs (lines 90-94).
ProcessExitHandler(p) ==
    /\ ~HostDown
    /\ UNCHANGED lspClient
    /\ inp' = NoInp
    /\ UNCHANGED calls
    /\ procState[p] = "running"
    /\ procState' = [procState EXCEPT ![p] = "crashed"]
    /\ initialized' = FALSE
    /\ serverReqs' = Alive(serverReqs, procState')
    /\ out' = <<>>
    /\ UNCHANGED <<connection, serverProcess, serverCapabilities, docVars,
                   spawned, seq, didOpens, starters, stopper, ops>>
\* the handler when nothing listens to the client's "exit" event
ProcessExit(p) ==
    /\ ProcessExitHandler(p)
    /\ ret' = NoRet
\* the handler when a listener is registered for the "exit" event
ProcessExitObserved(p) ==
    /\ ProcessExitHandler(p)
    /\ emit("exit", "none", {})

\* The process killed by stop() is gone; its "exit" handler runs (lines 90-94).
KilledExitHandler(p) ==
    /\ ~HostDown
    /\ UNCHANGED lspClient
    /\ inp' = NoInp
    /\ UNCHANGED calls
    /\ procState[p] = "killed"
    /\ procState' = [procState EXCEPT ![p] = "exited"]
    /\ initialized' = FALSE
    /\ out' = <<>>
    /\ UNCHANGED <<connection, serverProcess, serverCapabilities, docVars,
                   spawned, seq, didOpens, serverReqs, starters, stopper, ops>>
\* the handler when nothing listens to the client's "exit" event
KilledExit(p) ==
    /\ KilledExitHandler(p)
    /\ ret' = NoRet
\* the handler when a listener is registered for the "exit" event
KilledExitObserved(p) ==
    /\ KilledExitHandler(p)
    /\ emit("exit", "none", {})

Orders == UNION {[1..n -> Files] : n \in 1..Cardinality(Files)}

Next ==
    \/ \E s \in Starters, spawnOk \in BOOLEAN, listener \in BOOLEAN :
          start(s, spawnOk, listener, FALSE)
    \/ \E s \in Starters, r \in serverReqs, kind \in {"result", "error"},
          caps \in CapabilitySets : InitializeResponse(s, r, kind, caps)
    \/ \E s \in Starters, r \in serverReqs,
          kind \in {"result", "null", "No Project", "error"} : ProbeResponse(s, r, kind)
    \/ \E s \in Starters : ProbeRetry(s)
    \/ \E s \in Starters : ProbeLoop(s)
    \/ \E s \in Starters : ProbeDeadline(s)
    \/ stop
    \/ \E r \in serverReqs, kind \in {"result", "error"} : ShutdownResponse(r, kind)
    \/ \E order \in Orders : cleanup(order)
    \/ \E p \in Procs, uri \in Uris, diags \in DiagSets : publishDiagnostics(p, uri, diags)
    \/ \E p \in Procs : ProcessExit(p)
    \/ \E p \in Procs : KilledExit(p)
    \/ \E o \in Ops, f \in Files, readable \in BOOLEAN : getHover(o, f, readable)
    \/ \E o \in Ops, f \in Files, readable \in BOOLEAN : getDefinition(o, f, readable)
    \/ \E o \in Ops, r \in serverReqs, kind \in {"result", "error"} :
          OpResponse(o, r, kind, IF kind = "result" THEN Null ELSE "Invalid position")
    \/ \E f \in Files : getDiagnosticsCall(f)

Spec == Init /\ [][Next]_vars

\* The event loop runs every timer that is due and delivers the exit event of a
\* killed process; nothing obliges a server to answer or a caller to call.
FairSpec ==
    /\ Spec
    /\ WF_vars(\E s \in Starters : ProbeDeadline(s))
    /\ WF_vars(\E s \in Starters : ProbeRetry(s))
    /\ WF_vars(\E s \in Starters : ProbeLoop(s))
    /\ WF_vars(\E p \in Procs : KilledExit(p))

\* start() and stop() called in any interleaving: a start() call may begin
\* while another one has not returned yet.
NextStarts ==
    \/ \E s \in Starters, spawnOk \in BOOLEAN, listener \in BOOLEAN :
          start(s, spawnOk, listener, TRUE)
    \/ \E s \in Starters, r \in serverReqs, kind \in {"result", "error"},
          caps \in CapabilitySets : InitializeResponse(s, r, kind, caps)
    \/ \E s \in Starters, r \in serverReqs,
          kind \in {"result", "null", "No Project", "error"} : ProbeResponse(s, r, kind)
    \/ \E s \in Starters : ProbeRetry(s)
    \/ \E s \in Starters : ProbeLoop(s)
    \/ \E s \in Starters : ProbeDeadline(s)
    \/ stop
    \/ \E r \in serverReqs, kind \in {"result", "error"} : ShutdownResponse(r, kind)
    \/ \E p \in Procs : ProcessExit(p)
    \/ \E p \in Procs : KilledExit(p)

StartsSpec == Init /\ [][NextStarts]_vars

\* A started client whose server answers every request of an operation with
\* any result the wire can carry, or with an error.
NextResults ==
    \/ \E s \in Starters, listener \in BOOLEAN : start(s, TRUE, listener, FALSE)
    \/ \E s \in Starters, r \in serverReqs, caps \in CapabilitySets :
          InitializeResponse(s, r, "result", caps)
    \/ \E s \in Starters, r \in serverReqs : ProbeResponse(s, r, "result")
    \/ \E o \in Ops, f \in Files, readable \in BOOLEAN : getDefinition(o, f, readable)
    \/ \E o \in Ops, f \in Files, readable \in BOOLEAN : getReferences(o, f, readable)
    \/ \E o \in Ops, f \in Files, readable \in BOOLEAN : getCompletion(o, f, readable)
    \/ \E o \in Ops, f \in Files, readable \in BOOLEAN : renameSymbol(o, f, readable)
    \/ \E o \in Ops, f \in Files, readable \in BOOLEAN, maxResults \in MaxResultsValues :
          lspGetCompletion(o, f, readable, maxResults)
    \/ \E o \in Ops, r \in serverReqs, result \in ServerResults :
          OpResponse(o, r, "result", result)
    \/ \E o \in Ops, r \in serverReqs, message \in ErrorMessages :
          OpResponse(o, r, "error", message)

ResultSpec == Init /\ [][NextResults]_vars

\* The tool handlers called on a client in any state of its session: before
\* start(), during the handshake, when ready, and after the server has exited.
NextTools ==
    \/ \E s \in Starters, listener \in BOOLEAN : start(s, TRUE, listener, FALSE)
    \/ \E s \in Starters, r \in serverReqs, caps \in ToolCapabilitySets :
          InitializeResponse(s, r, "result", caps)
    \/ \E s \in Starters, r \in serverReqs : ProbeResponse(s, r, "result")
    \/ \E p \in Procs : ProcessExit(p)
    \/ \E o \in Ops, f \in Files, readable \in BOOLEAN : lspGetHover(o, f, readable)
    \/ \E o \in Ops, f \in Files, readable \in BOOLEAN : lspGetDefinitions(o, f, readable)
    \/ \E o \in Ops, f \in Files, readable \in BOOLEAN : lspFindReferences(o, f, readable)
    \/ \E o \in Ops, f \in Files, readable \in BOOLEAN : lspGetCompletion(o, f, readable, 1)
    \/ \E f \in Files : lspGetDiagnostics(f)
    \/ \E o \in Ops, f \in Files, readable \in BOOLEAN : lspFormatDocument(o, f, readable)
    \/ \E o \in Ops : searchSymbols(o, 1)
    \/ \E o \in Ops, f \in Files, readable \in BOOLEAN : getSymbolDetails(o, f, readable)
    \/ \E o \in Ops, r \in serverReqs, kind \in {"result", "error"} :
          OpResponse(o, r, kind, IF kind = "result" THEN Null ELSE "Invalid position")
    \/ \E o \in Ops, r \in serverReqs, readable \in BOOLEAN :
          getSymbolDetailsNext(o, r, Null, readable)
    \/ \E o \in Ops, r \in serverReqs : searchSymbolsResult(o, r, Null, 1)

ToolSpec == Init /\ [][NextTools]_vars

\* The MCP server: tools invoked in any interleaving with the progress of the
\* start() call that the first invocation makes.
NextServer ==
    \/ \E s \in Starters, spawnOk \in BOOLEAN, listener \in BOOLEAN :
          ensureLSPClient(s, spawnOk, listener)
    \/ \E o \in Ops, f \in Files, readable \in BOOLEAN : lsp_get_hover(o, f, readable)
    \/ \E s \in Starters, r \in serverReqs, kind \in {"result", "error"},
          caps \in ToolCapabilitySets : InitializeResponse(s, r, kind, caps)
    \/ \E s \in Starters, r \in serverReqs,
          kind \in {"result", "null", "No Project", "error"} : ProbeResponse(s, r, kind)
    \/ \E s \in Starters : ProbeRetry(s)
    \/ \E s \in Starters : ProbeLoop(s)
    \/ \E s \in Starters : ProbeDeadline(s)
    \/ \E p \in Procs : ProcessExit(p)
    \/ \E o \in Ops, r \in serverReqs, kind \in {"result", "error"} :
          OpResponse(o, r, kind, IF kind = "result" THEN Null ELSE "Invalid position")

ServerSpec == Init /\ [][NextServer]_vars

\* A client whose "diagnostics" and "exit" events have listeners.
NextEvents ==
    \/ \E s \in Starters, listener \in BOOLEAN : start(s, TRUE, listener, FALSE)
    \/ \E s \in Starters, r \in serverReqs, caps \in CapabilitySets :
          InitializeResponse(s, r, "result", caps)
    \/ \E s \in Starters, r \in serverReqs : ProbeResponse(s, r, "result")
    \/ stop
    \/ \E r \in serverReqs, kind \in {"result", "error"} : ShutdownResponse(r, kind)
    \/ \E p \in Procs, uri \in Uris, diags \in DiagSets :
          publishDiagnosticsObserved(p, uri, diags)
    \/ \E p \in Procs : ProcessExitObserved(p)
    \/ \E p \in Procs : KilledExitObserved(p)

EventSpec == Init /\ [][NextEvents]_vars

\* searchSymbols on a started client, for every maxResults, every result the
\* server answers workspace/symbol with, and every number of matching lines.
NextSearch ==
    \/ \E s \in Starters, listener \in BOOLEAN : start(s, TRUE, listener, FALSE)
    \/ \E s \in Starters, r \in serverReqs, caps \in ToolCapabilitySets :
          InitializeResponse(s, r, "result", caps)
    \/ \E s \in Starters, r \in serverReqs : ProbeResponse(s, r, "result")
    \/ \E o \in Ops, maxResults \in MaxResultsValues : searchSymbols(o, maxResults)
    \/ \E o \in Ops, r \in serverReqs, result \in ServerResults, found \in 0..MaxFound :
          searchSymbolsResult(o, r, result, found)
    \/ \E o \in Ops, r \in serverReqs, message \in ErrorMessages :
          OpResponse(o, r, "error", message)

SearchSpec == Init /\ [][NextSearch]_vars

\* ---- observations used by the properties ----
\* The step is facade call o on file f: slot o was idle and either awaits a
\* response now or has thrown to its caller.
CallStep(o, f) ==
    /\ ops[o].pc = "idle"
    /\ calls' = calls + 1
    /\ \/ ops'[o].pc = "waiting" /\ ops'[o].file = f
       \/ ops'[o].pc = "idle" /\ ret'.caller = o /\ ret'.operation \in OpKinds /\ ret'.file = f

DidOpensIn(frames, f) ==
    {i \in 1..Len(frames) : frames[i].method = "textDocument/didOpen" /\ frames[i].file = f}
RequestsIn(frames, f) ==
    {i \in 1..Len(frames) : frames[i].type = "request" /\ frames[i].file = f}
\* frames a facade operation writes: didOpen notifications and requests on a file
DocumentFrames(frames) ==
    {i \in 1..Len(frames) : frames[i].file \in Files
                            /\ frames[i].method # "textDocument/didClose"}

\* C1: a step that sends a request on a file that is not open sends exactly one
\* didOpen for it, before the request; a step taken while the file is open
\* sends no didOpen for it; so no connection ever carries two didOpen for a
\* file that stayed open.
C1_DidOpenOnce ==
    /\ [](\A f \in Files : didOpens[f] <= 1)
    /\ [][\A f \in Files :
            /\ (f \notin openDocuments /\ RequestsIn(out', f) # {})
                  => /\ Cardinality(DidOpensIn(out', f)) = 1
                     /\ \A i \in DidOpensIn(out', f), j \in RequestsIn(out', f) : i < j
            /\ f \in openDocuments => DidOpensIn(out', f) = {}]_vars

\* C1 witness: two operations are in flight on the same file and the second
\* one has just sent its request alone, the file having been opened by the first.
C1_Witness ==
    \E o1 \in Ops, o2 \in Ops :
        /\ o1 # o2
        /\ ops[o1].pc = "waiting" /\ ops[o2].pc = "waiting"
        /\ ops[o1].file = ops[o2].file
        /\ ops[o1].req.conn = connection /\ ops[o2].req.conn = connection
        /\ didOpens[ops[o2].file] = 1
        /\ out = <<Request(MethodOf(ops[o2].kind), ops[o2].file, ops[o2].req.id)>>

\* C2: an operation that completes with a result completes with the response
\* to the request it sent itself: same method, same file, same call.
C2_OwnResponse ==
    (ret.status = "ok" /\ ret.operation \in OpKinds)
        => ret.about = [method |-> MethodOf(ret.operation), file |-> ret.file,
                        pos |-> ret.caller]

\* C2 witness: two requests were in flight on one connection and the later one
\* has been answered first, the earlier one still waiting.
C2_Witness ==
    /\ ret.status = "ok"
    /\ ret.operation \in OpKinds
    /\ spawned = 1
    /\ \E o \in Ops : ops[o].pc = "waiting" /\ ops[o].req.id < ret.id

\* C3: while the client is not initialized no facade operation writes a frame:
\* a didOpen or a request on a file is only ever written by an initialized client.
C3_NoFrameBeforeReady ==
    DocumentFrames(out) # {} => initialized

\* C4: a facade operation that awaits a response from a process that has exited
\* eventually stops waiting.
C4_PendingFailOnExit ==
    \A o \in Ops :
        (ops[o].pc = "waiting" /\ procState[ops[o].req.conn] = "crashed")
            ~> (ops[o].pc # "waiting")

\* C5: a facade operation called after the server process of the connection has
\* exited fails, writes no frame and leaves the document registry as it was.
C5_NothingAfterExit ==
    [][\A o \in Ops, f \in Files :
          (CallStep(o, f) /\ connection # 0 /\ procState[connection] = "crashed")
              => /\ ret'.status = "TSMCPError"
                 /\ out' = <<>>
                 /\ openDocuments' = openDocuments
                 /\ documentVersions' = documentVersions]_vars

\* C6: an operation whose response does not arrive is failed by the request
\* timeout: no operation waits forever on a running session.
C6_RequestTimeout ==
    \A o \in Ops :
        (ops[o].pc = "waiting" /\ procState[ops[o].req.conn] = "running")
            ~> (ops[o].pc # "waiting" \/ procState[ops[o].req.conn] # "running")

\* C7: an operation in flight when stop() has run eventually fails instead of
\* remaining pending.
C7_StopFailsInFlight ==
    \A o \in Ops :
        (ops[o].pc = "waiting" /\ procState[ops[o].req.conn] \in {"killed", "exited"})
            ~> (ops[o].pc # "waiting")

\* C8: the step of start() in which the spawn fails, and the step in which
\* start() ends during the handshake, reject with TSMCPError of operation
\* "start" and leave the client uninitialized.
C8_StartRejects ==
    [][((spawned' = spawned + 1 /\ procState'[spawned'] = "failed")
          \/ \E s \in Starters : starters[s].pc = "awaitInit" /\ starters'[s].pc # "awaitInit"
                                 /\ starters'[s].pc \notin {"awaitProbe", "probeLoop"})
         => /\ ret'.status = "TSMCPError"
            /\ ret'.operation = "start"
            /\ ~initialized']_vars

\* C9: once the handshake has succeeded start() eventually returns, whatever
\* happens to the probes.
C9_ProbeEnds ==
    \A s \in Starters :
        (starters[s].pc \in {"awaitProbe", "sleep", "probeLoop"})
            ~> (starters[s].pc = "idle" /\ ret.operation = "start" /\ ret.status = "ok")

\* C10: a client whose server process has exited on its own does not report
\* initialized.
C10_StoppedAfterExit ==
    (connection # 0 /\ procState[connection] = "crashed") => ~isInitialized

\* The client has been stopped: stop() has killed a server process of it, or a
\* server process of it has exited on its own.
Stopped == \E p \in Procs : procState[p] \in {"killed", "exited", "crashed"}

\* C11: once the client is Stopped no start() call on it spawns a process or
\* writes an initialize request again.
C11_NotReusable ==
    [][Stopped => /\ spawned' = spawned
                  /\ \A i \in 1..Len(out') : out'[i].method # "initialize"]_vars

\* C12: whatever the interleaving of start() calls, the client never has two
\* server processes running.
C12_OneProcess ==
    Cardinality({p \in Procs : procState[p] = "running"}) <= 1

\* feature names callers ask about, one of them unknown to the client
Features == {"hover", "completion", "definition", "references", "rename", "documentSymbol",
             "workspaceSymbol", "codeAction", "formatting", "rangeFormatting",
             "signatureHelp", "diagnostics", "typeHierarchy"}
\* the capability of the initialize result that corresponds to a feature name
Corresponding ==
    {<<"hover", "hoverProvider">>, <<"completion", "completionProvider">>,
     <<"definition", "definitionProvider">>, <<"references", "referencesProvider">>,
     <<"rename", "renameProvider">>, <<"documentSymbol", "documentSymbolProvider">>,
     <<"workspaceSymbol", "workspaceSymbolProvider">>, <<"codeAction", "codeActionProvider">>,
     <<"formatting", "documentFormattingProvider">>,
     <<"rangeFormatting", "documentRangeFormattingProvider">>,
     <<"signatureHelp", "signatureHelpProvider">>}
Advertised(caps, name) == \E pr \in caps : <<name, pr>> \in Corresponding
\* no initialize result has reached the client yet
NoHandshakeYet == spawned = 0 \/ (spawned = 1 /\ \E s \in Starters : starters[s].pc = "awaitInit")

PushStep == inp'.method = "textDocument/publishDiagnostics"

C15_PushFrame ==
    [][PushStep =>
          /\ \A u \in Uris \ {inp'.uri} : diagnostics'[u] = diagnostics[u]
          /\ \A f \in Files : pathToUri(f) # inp'.uri => getDiagnostics(f)' = getDiagnostics(f)
          /\ UNCHANGED <<openDocuments, documentVersions, serverCapabilities, initialized>>]_vars

\* C15 witness: a notification for a.ts has just arrived on an initialized
\* client with an open document and a cache entry for another file.
C15_Witness ==
    /\ inp.method = "textDocument/publishDiagnostics"
    /\ inp.uri = pathToUri("a.ts")
    /\ diagnostics["file:///c.ts"] = {"TS2322"}
    /\ openDocuments # {}
    /\ initialized

\* C16: a publishDiagnostics that arrives while requests are pending is
\* applied in its own step and leaves every pending call waiting as it was:
\* none is completed, failed or dropped.
C16_PushIndependent ==
    [][PushStep =>
          /\ diagnostics'[inp'.uri] = inp'.value.set
          /\ UNCHANGED <<ops, starters, stopper, serverReqs>>
          /\ ret' = NoRet]_vars

\* C16 witness: the notification has been applied while two facade requests
\* are still awaiting their responses.
C16_Witness ==
    /\ inp.method = "textDocument/publishDiagnostics"
    /\ diagnostics[inp.uri] = inp.value.set
    /\ \A o \in Ops : ops[o].pc = "waiting" /\ procState[ops[o].req.conn] = "running"

\* A step in which the operation named kind returns normally with what it
\* made of the result the server answered its request with.
ResultStep(kind) ==
    /\ ret'.operation = kind
    /\ ret'.status = "ok"
    /\ inp'.method = MethodOf(kind)

\* What the caller must get for a server result under the array contract.
AsArray(result) ==
    IF falsy(result) THEN <<>>
    ELSE IF isArray(result) THEN result.items
    ELSE <<result>>

\* C17: getDefinition always returns an array: a single location object yields
\* the one-element array holding it, a null or absent result the empty array,
\* and an array result the same elements in the same order.
C17_DefinitionArray ==
    [][ResultStep("getDefinition") =>
          /\ isArray(ret'.value)
          /\ ret'.value.items = AsArray(inp'.value)]_vars

C17_Witness ==
    /\ ret.operation = "getDefinition"
    /\ ret.status = "ok"
    /\ inp.method = "textDocument/definition"
    /\ inp.value \in Items
    /\ ret.value = Arr(<<inp.value>>)

\* C18: getReferences always returns an array: a single location yields a
\* one-element array, an array of locations that array, and a null or absent
\* result the empty array.
C18_ReferencesArray ==
    [][ResultStep("getReferences") =>
          /\ isArray(ret'.value)
          /\ ret'.value.items = AsArray(inp'.value)]_vars

\* The items a server's completion answer holds, in the server's order.
ServerItems(result) ==
    IF falsy(result) THEN <<>>
    ELSE IF result.t \in {"array", "list"} THEN result.items
    ELSE <<>>

\* C19: whether the server answers with a bare array, with a container holding
\* an items field or with null, the completions returned are the first
\* min(n, maxResults) of the server's n items, in the server's order.
C19_Truncated ==
    [][ResultStep("lspGetCompletion") =>
          /\ isArray(ret'.value)
          /\ ret'.value.items =
                SubSeq(ServerItems(inp'.value), 1,
                       Min(Len(ServerItems(inp'.value)), ops[ret'.caller].arg))]_vars

\* A step in which renameSymbol, awaiting its textDocument/rename request, gets
\* the server's error answer.
RenameErrorStep ==
    /\ inp'.method = "textDocument/rename"
    /\ inp'.value.t = "error"
    /\ ret'.operation = "renameSymbol"

\* The error messages the statement counts as saying the method is unsupported.
SaysUnsupported(message) ==
    \E sub \in {"not supported", "Method not found", "Unhandled method"} :
        includes(message, sub)

\* A step in which renameSymbol is called on a connected client whose
\* capability set lacks the rename capability.
RenameUnsupportedStep ==
    /\ ret'.operation = "renameSymbol"
    /\ inp'.method = "none"
    /\ connection # 0
    /\ ~supportsFeature("rename")

\* C20: a textDocument/rename error whose message contains "not supported",
\* "Method not found" or "Unhandled method" makes renameSymbol return null
\* instead of raising; with the rename capability absent, renameSymbol raises
\* an error and sends no request.
C20_RenameUnsupported ==
    /\ [][RenameErrorStep /\ SaysUnsupported(inp'.value.message) =>
             ret'.status = "ok" /\ ret'.value = Null]_vars
    /\ [][RenameUnsupportedStep =>
             /\ ret'.status = "TSMCPError"
             /\ ret'.cause = "not supported"
             /\ out' = <<>>
             /\ serverReqs' = serverReqs]_vars

C20_Witness ==
    /\ ret.operation = "renameSymbol"
    /\ ret.status = "ok"
    /\ ret.value = Null
    /\ inp.method = "textDocument/rename"
    /\ inp.value = ResponseError("Unhandled method textDocument/rename")
    /\ "renameProvider" \in serverCapabilities

C20_WitnessAbsent ==
    /\ ret.operation = "renameSymbol"
    /\ ret.status = "TSMCPError"
    /\ ret.cause = "not supported"
    /\ connection # 0
    /\ serverCapabilities # Undefined
    /\ "renameProvider" \notin serverCapabilities

\* A step in which an operation of the client, awaiting its request, gets the
\* server's error answer.
ServerRejectedStep ==
    /\ inp'.method \in {MethodOf(kind) : kind \in OpKinds \ ToolKinds}
    /\ inp'.value.t = "error"
    /\ ret'.operation \in OpKinds \ ToolKinds

\* C21: when the server answers a call with a protocol-level error, the outcome
\* depends only on the operation: renameSymbol returns null, every other
\* operation fails with a typed error.
C21_ServerRejected ==
    [][ServerRejectedStep =>
          IF ret'.operation = "renameSymbol"
          THEN ret'.status = "ok" /\ ret'.value = Null
          ELSE ret'.status = "TSMCPError"]_vars

\* the operations of the client that go through withErrorHandling
FacadeKinds == OpKinds \ ToolKinds

\* C22: every facade operation ends in exactly one of two ways: it returns its
\* success value, or it fails with a TSMCPError carrying the operation's name
\* and file; no failure inside an operation (not connected, unsupported
\* feature, unreadable file, server error, transport error) reaches the caller
\* unwrapped.
C22_TypedOutcome ==
    /\ [](ret.operation \in FacadeKinds => ret.status \in {"ok", "TSMCPError"})
    /\ [][\A o \in Ops :
            /\ (ops[o].pc = "waiting" /\ ops'[o].pc = "idle")
                  => /\ ret'.caller = o
                     /\ ret'.operation = ops[o].kind
                     /\ ret'.file = ops[o].file
                     /\ ret'.status \in {"ok", "TSMCPError"}
            /\ \A f \in Files :
                  (CallStep(o, f) /\ ops'[o].pc = "idle")
                      => /\ ret'.status = "TSMCPError"
                         /\ ret'.operation \in FacadeKinds]_vars

C22_Witness ==
    /\ ret.operation \in FacadeKinds
    /\ ret.status = "TSMCPError"
    /\ ret.cause = "Connection is closed"
    /\ ret.file \in Files

DidClosesIn(frames, f) ==
    {i \in 1..Len(frames) : frames[i].method = "textDocument/didClose" /\ frames[i].file = f}

\* C23: the next position-based operation on a closed document re-opens it:
\* the file is read again and a didOpen with version 1 is sent before the
\* request; a close empties the file's diagnostics, and nothing but a
\* publishDiagnostics for the file makes them non-empty again.
C23_ReopenAfterClose ==
    /\ [][\A o \in Ops, f \in Files :
            (CallStep(o, f) /\ f \notin openDocuments /\ RequestsIn(out', f) # {})
                => /\ inp' = ReadFile(pathToUri(f))
                   /\ Len(out') = 2
                   /\ out'[1] = Notification("textDocument/didOpen", f)
                   /\ out'[2].type = "request" /\ out'[2].file = f
                   /\ documentVersions'[f] = 1
                   /\ f \in openDocuments']_vars
    /\ [][\A f \in Files :
            /\ DidClosesIn(out', f) # {} => getDiagnostics(f)' = {}
            /\ (getDiagnostics(f) = {} /\ ~(PushStep /\ inp'.uri = pathToUri(f)))
                  => getDiagnostics(f)' = {}]_vars

\* C23 witness: a request on a.ts is still with the server, and the last step
\* has read a.ts and sent a didOpen for it again, before a new request on the
\* same connection: a.ts was closed in between.
C23_Witness ==
    \E r \in serverReqs :
        /\ r.file = "a.ts"
        /\ r.conn = connection
        /\ r.id < seq - 1
        /\ inp = ReadFile(pathToUri("a.ts"))
        /\ Len(out) = 2
        /\ out[1] = Notification("textDocument/didOpen", "a.ts")
        /\ out[2].type = "request" /\ out[2].file = "a.ts" /\ out[2].id = seq - 1
        /\ getDiagnostics("a.ts") = {}

\* cleanup() on a client whose connection has not seen its streams close
CleanupStep ==
    /\ ret'.operation = "cleanup"
    /\ calls' = calls + 1
    /\ connection # 0
    /\ ~connClosed(connection)

C25_OpenBeforeRequest ==
    [][\A f \in Files : RequestsIn(out', f) # {} => didOpens'[f] > 0]_vars

\* The step in which stop() returns to its caller.
StopReturns ==
    /\ ret'.operation = "stop"
    /\ \/ calls' = calls + 1
       \/ stopper.pc = "awaitShutdown" /\ stopper'.pc = "idle"

\* The session is clear: no connection, no process, no capabilities, no document
\* and no diagnostics.
Cleared ==
    /\ connection = 0
    /\ serverProcess = 0
    /\ ~isInitialized
    /\ \A name \in Features : ~supportsFeature(name)
    /\ openDocuments = {}
    /\ \A f \in Files : documentVersions[f] = 0
    /\ \A u \in Uris : diagnostics[u] = NoEntry

\* C26: when stop() returns, whether the shutdown request succeeded or failed,
\* the process has been told to terminate and the session is clear; a second
\* stop() sends no frame and leaves this state unchanged.
C26_StopClears ==
    /\ [][StopReturns =>
             /\ serverProcess # 0 => procState'[serverProcess] # "running"
             /\ Cleared']_vars
    /\ [][(StopReturns /\ Cleared) =>
             /\ out' = <<>>
             /\ Cleared'
             /\ procState' = procState
             /\ spawned' = spawned]_vars

\* C26 witness: stop() has returned again after the process that an earlier
\* stop() killed is gone.
C26_Witness ==
    /\ ret.operation = "stop"
    /\ ret.status = "ok"
    /\ spawned = 1
    /\ procState[1] = "exited"
    /\ Cleared
    /\ out = <<>>

\* C27: stop() eventually completes and terminates the server process in every
\* case, also when the server is dead or never answers the shutdown request.
C27_StopCompletes ==
    (stopper.pc = "awaitShutdown") ~> (stopper.pc = "idle" /\ serverProcess = 0)

\* C28: getDiagnostics(path) is a purely local read in every state: it sends
\* no request and no notification, reads and opens no document, and leaves the
\* diagnostics cache, the registry and all session state unchanged.
C28_LocalRead ==
    [][(ret'.operation = "getDiagnostics" /\ calls' = calls + 1) =>
          /\ out' = <<>>
          /\ inp' = NoInp
          /\ ret'.value = Diagnostics(getDiagnostics(ret'.file))
          /\ UNCHANGED <<clientVars, envVars, seq, didOpens, serverReqs,
                         starters, stopper, ops>>]_vars

\* C28 witness: getDiagnostics has returned a published set for a file that is
\* not open, on a client that stop() has cleared.
C28_Witness ==
    /\ ret.operation = "getDiagnostics"
    /\ ret.status = "ok"
    /\ ret.value = Diagnostics({"TS2322"})
    /\ ret.file \notin openDocuments
    /\ connection = 0
    /\ spawned = 1

\* the operation that the call step of slot o is a call of
StepKind(o) == IF ops'[o].pc = "waiting" THEN ops'[o].kind ELSE ret'.operation
\* the capability set lacks the capability that operation kind requires
CapabilityAbsent(kind) ==
    \/ serverCapabilities = Undefined
    \/ ProviderOf(FeatureOf(kind)) \notin serverCapabilities
AllRequestsIn(frames) == {i \in 1..Len(frames) : frames[i].type = "request"}

\* C29: a document operation checks readiness, then the capability, then
\* ensures the document is open, then sends one request: without a connection,
\* or with the capability absent, it fails before ensure-open (no file read, no
\* didOpen, no request, registry unchanged); a call that goes on to await its
\* response has sent exactly one request, and its completion sends nothing.
C29_FixedOrder ==
    [][\A o \in Ops, f \in Files :
         /\ (CallStep(o, f) /\ StepKind(o) \in FacadeKinds
                /\ (connection = 0 \/ CapabilityAbsent(StepKind(o))))
               => /\ ret'.status = "TSMCPError"
                  /\ ret'.cause = IF connection = 0 THEN "LSP client not initialized"
                                  ELSE "not supported"
                  /\ inp' = NoInp
                  /\ out' = <<>>
                  /\ UNCHANGED <<docVars, didOpens, serverReqs>>
         /\ (CallStep(o, f) /\ ops'[o].pc = "waiting")
               => /\ Cardinality(AllRequestsIn(out')) = 1
                  /\ AllRequestsIn(out') = RequestsIn(out', f)
                  /\ out'[Len(out')].method = MethodOf(ops'[o].kind)
         /\ (ops[o].pc = "waiting" /\ ops'[o].pc = "idle") => out' = <<>>]_vars

\* C29 witness: getDefinition has failed on a connected client whose server
\* advertises no definitionProvider, on a file that has not been opened.
C29_Witness ==
    /\ ret.operation = "getDefinition"
    /\ ret.status = "TSMCPError"
    /\ ret.cause = "not supported"
    /\ connection # 0
    /\ serverCapabilities = {"hoverProvider", "renameProvider"}
    /\ ret.file \notin openDocuments
    /\ out = <<>>

\* The step is a call of a tool handler: it returns at once, or awaits the
\* response to the request of the client operation it has called.
ToolCallStep ==
    /\ calls' = calls + 1
    /\ \/ ret'.operation \in ToolKinds
       \/ \E o \in Ops : /\ ops[o].pc = "idle"
                          /\ ops'[o].pc = "waiting"
                          /\ ops'[o].kind \in ToolKinds
\* the text of the response createErrorResponse builds
ErrorText(response) == "Error: " \o response.cause

\* C30: every tool handler called with a client whose isInitialized() is false
\* returns an error response, with a text starting with "Error", and invokes
\* no operation of the client: nothing is read, written or changed.
C30_ToolsNeedInitialized ==
    [][(ToolCallStep /\ ~initialized) =>
          /\ ret'.operation \in ToolKinds
          /\ ret'.status = "errorResponse"
          /\ ret'.cause = "LSP client is not initialized"
          /\ SubSeq(ErrorText(ret'), 1, 5) = "Error"
          /\ out' = <<>>
          /\ inp' = NoInp
          /\ UNCHANGED <<clientVars, envVars, seq, didOpens, serverReqs, starters,
                         stopper, ops>>]_vars

\* C30 witness: getSymbolDetails has returned the error response on a client
\* that is connected to a running server and has its capabilities, but whose
\* start() has not completed.
C30_Witness ==
    /\ ret.operation = "getSymbolDetails"
    /\ ret.status = "errorResponse"
    /\ ret.cause = "LSP client is not initialized"
    /\ ~initialized
    /\ connection # 0
    /\ procState[connection] = "running"
    /\ "hoverProvider" \in serverCapabilities

\* ---- locations: pathUtils.extractPathAndPosition, errorHandler.formatError ----
MaxLen == 5          \* characters of the location string a tool is called with
MaxLocations == 1    \* location strings parsed in one run
\* characters of a location string: a letter, the separator, digits, a line feed
Chars == {"a", ":", "0", "1", "\n"}
RECURSIVE Strings(_)
Strings(n) == IF n = 0 THEN {""}
              ELSE LET shorter == Strings(n - 1)
                   IN  shorter \cup {str \o c : str \in shorter, c \in Chars}
\* the input argument of a tool handler
Locations == Strings(MaxLen)

Char(str, i) == SubSeq(str, i, i)
Digits == {"0", "1", "2", "3", "4", "5", "6", "7", "8", "9"}
\* the line terminators, which "." of a regular expression does not match
LineTerminators == {"\n", "\r"}
digitValue(c) ==
    CASE c = "0" -> 0 [] c = "1" -> 1 [] c = "2" -> 2 [] c = "3" -> 3 [] c = "4" -> 4
      [] c = "5" -> 5 [] c = "6" -> 6 [] c = "7" -> 7 [] c = "8" -> 8 [] c = "9" -> 9
\* str matches \d+
isDigits(str) == Len(str) >= 1 /\ \A i \in 1..Len(str) : Char(str, i) \in Digits
\* parseInt(str, 10) of a string of digits
RECURSIVE parseInt(_)
parseInt(str) ==
    IF Len(str) = 0 THEN 0
    ELSE parseInt(SubSeq(str, 1, Len(str) - 1)) * 10 + digitValue(Char(str, Len(str)))
\* String(n) of an integer, as a template literal shows it
RECURSIVE toString(_)
toString(n) ==
    IF n < 0 THEN "-" \o toString(0 - n)
    ELSE IF n < 10 THEN Char("0123456789", n + 1)
    ELSE toString(n \div 10) \o Char("0123456789", (n % 10) + 1)

\* The groups of (?::(\d+)(?::(\d+))?)?$ matched against the whole of tail;
\* "" stands for a group that did not take part (undefined).
NoGroups == [matched |-> FALSE, line |-> "", character |-> ""]
matchTail(tail) ==
    IF tail = "" THEN [matched |-> TRUE, line |-> "", character |-> ""]
    ELSE IF Char(tail, 1) # ":" THEN NoGroups
    ELSE LET rest == SubSeq(tail, 2, Len(tail))
             seps == {j \in 2..(Len(rest) - 1) :
                         /\ Char(rest, j) = ":"
                         /\ isDigits(SubSeq(rest, 1, j - 1))
                         /\ isDigits(SubSeq(rest, j + 1, Len(rest)))}
         IN  IF seps # {}
             THEN LET j == CHOOSE k \in seps : TRUE
                  IN  [matched |-> TRUE, line |-> SubSeq(rest, 1, j - 1),
                       character |-> SubSeq(rest, j + 1, Len(rest))]
             ELSE IF isDigits(rest)
             THEN [matched |-> TRUE, line |-> rest, character |-> ""]
             ELSE NoGroups
\* input.match(/^(.*?)(?::(\d+)(?::(\d+))?)?$/): the lazy first group takes the
\* shortest prefix without a line terminator after which the rest matches.
positionMatch(input) ==
    LET fits == {k \in 0..Len(input) :
                    /\ \A i \in 1..k : Char(input, i) \notin LineTerminators
                    /\ matchTail(SubSeq(input, k + 1, Len(input))).matched}
    IN  IF fits = {} THEN [matched |-> FALSE, path |-> "", line |-> "", character |-> ""]
        ELSE LET k == CHOOSE m \in fits : \A other \in fits : m <= other
                 groups == matchTail(SubSeq(input, k + 1, Len(input)))
             IN  [matched |-> TRUE, path |-> SubSeq(input, 1, k),
                  line |-> groups.line, character |-> groups.character]

Position(line, character) == [t |-> "position", line |-> line, character |-> character]
extractPathAndPosition(input) ==
    LET positionMatched == positionMatch(input)
    IN  IF ~positionMatched.matched
        THEN [path |-> input, position |-> Null]
        ELSE [path |-> positionMatched.path,
              position |-> IF positionMatched.line # ""
                           THEN Position(parseInt(positionMatched.line) - 1,
                                         IF positionMatched.character # ""
                                         THEN parseInt(positionMatched.character) - 1
                                         ELSE 0)
                           ELSE Null]

\* formatError's part for context.position
positionText(position) ==
    "Position: " \o toString(position.line + 1) \o ":" \o toString(position.character + 1)
\* formatError(error, context) with context = {operation, position}
formatError(message, operation, position) ==
    message \o " (Operation: " \o operation \o ", " \o positionText(position) \o ")"
\* path.join(root, relativePath), with "/" as the project root
join(relativePath) == "/" \o relativePath

\* the tool handlers that take a position from their input
PositionKinds == {"lspGetHover", "lspGetDefinitions", "lspFindReferences",
                  "lspGetCompletion", "getSymbolDetails"}
\* the client operation such a handler calls first
ClientOperationOf(kind) ==
    CASE kind = "lspGetHover" -> "getHover"
      [] kind = "lspGetDefinitions" -> "getDefinition"
      [] kind = "lspFindReferences" -> "getReferences"
      [] kind = "lspGetCompletion" -> "getCompletion"
      [] kind = "getSymbolDetails" -> "getHover"

LocationUnchanged ==
    UNCHANGED <<clientVars, envVars, seq, didOpens, serverReqs, starters, stopper, ops,
                lspClient>>

\* A call of extractPathAndPosition(input).
extractPathAndPositionCall(input) ==
    LET parsed == extractPathAndPosition(input)
    IN  /\ calls < MaxLocations
        /\ calls' = calls + 1
        /\ inp' = [method |-> "extractPathAndPosition", uri |-> input, value |-> Undef]
        /\ ret' = [NoRet EXCEPT !.operation = "extractPathAndPosition", !.status = "ok",
                                !.file = parsed.path, !.value = parsed.position]
        /\ out' = <<>>
        /\ LocationUnchanged

\* A call of formatError with the position the last call of
\* extractPathAndPosition returned as context.position.
formatErrorCall(message) ==
    /\ ret.operation = "extractPathAndPosition"
    /\ ret.value # Null
    /\ UNCHANGED calls
    /\ inp' = [method |-> "formatError", uri |-> inp.uri, value |-> ret.value]
    /\ ret' = [NoRet EXCEPT !.operation = "formatError", !.status = "ok",
                            !.value = [t |-> "string",
                                       text |-> formatError(message, "getHover", ret.value)]]
    /\ out' = <<>>
    /\ LocationUnchanged

\* A tool handler of an initialized client, from its call of
\* extractPathAndPosition to its call of the client operation: it returns an
\* error response when there is no position, and else calls the operation with
\* the joined path and the position.
passPosition(kind, input) ==
    LET parsed == extractPathAndPosition(input)
    IN  /\ calls < MaxLocations
        /\ calls' = calls + 1
        /\ inp' = [method |-> kind, uri |-> input, value |-> Undef]
        /\ ret' = IF parsed.position = Null
                  THEN ErrorResponse(0, kind, input, "Position is required")
                  ELSE [NoRet EXCEPT !.operation = ClientOperationOf(kind),
                                     !.status = "called",
                                     !.file = join(parsed.path),
                                     !.value = parsed.position]
        /\ out' = <<>>
        /\ LocationUnchanged

NextLocations ==
    \/ /\ calls < MaxLocations
       /\ \E input \in Locations : extractPathAndPositionCall(input)
    \/ \E message \in {"Test error"} : formatErrorCall(message)
    \/ /\ calls < MaxLocations
       /\ \E kind \in PositionKinds, input \in Locations : passPosition(kind, input)
LocationSpec == Init /\ [][NextLocations]_vars

\* location strings of the form p:line:column and p:line
IsLineColumn(input, i, j) ==
    /\ i < j
    /\ Char(input, i) = ":"
    /\ Char(input, j) = ":"
    /\ isDigits(SubSeq(input, i + 1, j - 1))
    /\ isDigits(SubSeq(input, j + 1, Len(input)))
    /\ parseInt(SubSeq(input, i + 1, j - 1)) >= 1
    /\ parseInt(SubSeq(input, j + 1, Len(input))) >= 1
\* input ends with a colon and digits
HasPosition(input) ==
    \E i \in 1..Len(input) : Char(input, i) = ":" /\ isDigits(SubSeq(input, i + 1, Len(input)))
\* p:line, where p does not itself end with a colon and digits (p:line would
\* then read as a path with a line and a column)
IsLine(input, i) ==
    /\ Char(input, i) = ":"
    /\ isDigits(SubSeq(input, i + 1, Len(input)))
    /\ parseInt(SubSeq(input, i + 1, Len(input))) >= 1
    /\ ~HasPosition(SubSeq(input, 1, i - 1))

ParsedAs(path, line, character) ==
    /\ ret.file = path
    /\ ret.value = Position(line, character)

\* C31: extractPathAndPosition("p:line:column") returns path p and position
\* (line - 1, column - 1) for every path p and line, column >= 1; "p:line"
\* returns (line - 1, 0); an input without a position returns a null position;
\* formatError shows a position as (line + 1):(character + 1), so that
\* parsing and then displaying gives back the one-based numbers.
C31_PositionRoundTrip ==
    /\ [](ret.operation = "extractPathAndPosition" =>
            LET input == inp.uri
            IN  /\ \A i, j \in 1..Len(input) :
                      IsLineColumn(input, i, j) =>
                         ParsedAs(SubSeq(input, 1, i - 1),
                                  parseInt(SubSeq(input, i + 1, j - 1)) - 1,
                                  parseInt(SubSeq(input, j + 1, Len(input))) - 1)
                /\ \A i \in 1..Len(input) :
                      IsLine(input, i) =>
                         ParsedAs(SubSeq(input, 1, i - 1),
                                  parseInt(SubSeq(input, i + 1, Len(input))) - 1, 0)
                /\ ~HasPosition(input) => ret.value = Null)
    /\ [][(ret.operation = "extractPathAndPosition" /\ ret'.operation = "formatError") =>
            LET input == inp.uri
            IN  \A i, j \in 1..Len(input) :
                   IsLineColumn(input, i, j) =>
                      includes(ret'.value.text,
                               "Position: "
                                  \o toString(parseInt(SubSeq(input, i + 1, j - 1))) \o ":"
                                  \o toString(parseInt(SubSeq(input, j + 1, Len(input)))))]_vars

\* C39: every position a tool handler passes to a client operation has
\* line >= 0 and character >= 0, for every location string that
\* extractPathAndPosition accepts, the line number 0 and the column number 0
\* included.
C39_PositionNonNegative ==
    (ret.status = "called" /\ ret.operation \in {ClientOperationOf(kind) : kind \in PositionKinds})
        => ret.value.line >= 0 /\ ret.value.character >= 0

\* C32: searchSymbols never returns more than maxResults symbols: when the
\* server returns n >= 1 workspace symbols the result is the first
\* min(n, maxResults) of them in the server's order; the files are searched
\* exactly when the truncated server result is empty, and that search stops at
\* maxResults matches.
C32_SearchBounded ==
    [][ResultStep("searchSymbols") =>
          LET maxResults == ops[ret'.caller].arg
              served == ServerItems(inp'.value)
              kept == SubSeq(served, 1, Min(Len(served), maxResults))
          IN  /\ Len(ret'.value.items) <= Max(maxResults, 0)
              /\ Len(served) >= 1 => ret'.value.items = kept
              /\ inp'.uri = "/" <=> kept = <<>>]_vars

\* C33: in every reachable state isInitialized() = true implies that the
\* client holds a connection and a capability snapshot; no interleaving of
\* stop() with a start() in progress leaves the client initialized with its
\* connection or its capabilities cleared.
C33_InitializedHolds ==
    isInitialized => connection # 0 /\ serverCapabilities # Undefined

\* C34: after stop() has returned and until a later start() (the client holds
\* neither a process nor a connection), the diagnostics cache and the
\* open-document registry are empty, also when a publishDiagnostics
\* notification or a response of the old connection is delivered after stop()
\* has cleared them.
C34_StoppedStaysEmpty ==
    (connection = 0 /\ serverProcess = 0) =>
        /\ openDocuments = {}
        /\ \A u \in Uris : diagnostics[u] = NoEntry

\* the documents that have an entry in documentVersions
Versioned == {f \in Files : documentVersions[f] # 0}

\* C36: in every reachable state the documents recorded as open are exactly
\* the documents that have a version entry, and every recorded version is 1; a
\* version does not change while its document stays open.
C36_VersionsMatchOpen ==
    /\ [](/\ openDocuments = Versioned
          /\ \A f \in Versioned : documentVersions[f] = 1)
    /\ [][\A f \in openDocuments \cap openDocuments' :
             documentVersions'[f] = documentVersions[f]]_vars

\* C36 witness: a.ts was opened for a request the server still holds and has
\* been closed by cleanup(); b.ts has been opened after that.
C36_Witness ==
    /\ openDocuments = {"b.ts"}
    /\ Versioned = {"b.ts"}
    /\ documentVersions["b.ts"] = 1
    /\ \E r \in serverReqs : r.file = "a.ts" /\ r.conn = connection
    /\ DidOpensIn(out, "b.ts") # {}

\* Facade call o on file f read the file of the not-yet-open document and the
\* read failed.
ReadFailsStep(o, f) ==
    /\ CallStep(o, f)
    /\ f \notin openDocuments
    /\ inp' = ReadFileFails(pathToUri(f))

\* C37: when the file of a not-yet-open document cannot be read, the operation
\* fails with a TSMCPError and the state is unchanged: the document is not
\* recorded as open and gets no version entry, and neither a didOpen nor the
\* request is sent; the next operation on the same file tries the open again.
C37_UnreadableFile ==
    /\ [][\A o \in Ops, f \in Files :
            ReadFailsStep(o, f)
                => /\ ret'.status = "TSMCPError"
                   /\ ret'.caller = o
                   /\ ret'.file = f
                   /\ f \notin openDocuments'
                   /\ documentVersions'[f] = 0
                   /\ out' = <<>>
                   /\ UNCHANGED <<clientVars, envVars, seq, didOpens, serverReqs, ops>>]_vars
    /\ [][\A o \in Ops, f \in Files :
            (/\ CallStep(o, f)
             /\ ret.cause = "Failed to read file"
             /\ ret.file = f
             /\ ret'.cause \notin {"LSP client not initialized", "not supported"})
                => /\ inp'.method = "readFileContent"
                   /\ inp'.uri = pathToUri(f)
                   /\ inp' = ReadFile(pathToUri(f)) /\ out' # <<>>
                         => out'[1] = Notification("textDocument/didOpen", f)]_vars

\* C37 witness: an operation on a.ts has just failed on the unreadable file
\* while the server is running and b.ts is open.
C37_Witness ==
    /\ inp = ReadFileFails(pathToUri("a.ts"))
    /\ ret.status = "TSMCPError"
    /\ ret.cause = "Failed to read file"
    /\ ret.file = "a.ts"
    /\ connection # 0
    /\ procState[connection] = "running"
    /\ openDocuments = {"b.ts"}
    /\ out = <<>>

\* C38: observers are notified after the state change: when a "diagnostics"
\* event is emitted for a file the cache already holds the set the event
\* carries, and when an "exit" event is emitted isInitialized() already
\* returns false.
C38_NotifiedAfterChange ==
    /\ [][(ret'.operation = "emit" /\ ret'.status = "diagnostics") =>
             /\ ret'.value.params = inp'.value.set
             /\ ret'.value.cache = ret'.value.params
             /\ diagnostics'[ret'.file] = ret'.value.params]_vars
    /\ [][(ret'.operation = "emit" /\ ret'.status = "exit") =>
             /\ ret'.value.initialized = FALSE
             /\ ~isInitialized']_vars

\* C38 witnesses: the "diagnostics" listener of an initialized client has been
\* called with an empty array and finds the cache entry present and empty; the
\* "exit" listener has been told of the exit of the server the client is
\* connected to.
C38_Witness ==
    /\ ret.operation = "emit"
    /\ ret.status = "diagnostics"
    /\ ret.value.params = {}
    /\ ret.value.cache = {}
    /\ calls >= 3
    /\ initialized
C38_WitnessExit ==
    /\ ret.operation = "emit"
    /\ ret.status = "exit"
    /\ ~initialized
    /\ connection # 0
    /\ serverCapabilities # Undefined
    /\ procState[connection] = "crashed"

\* A step in which start() is called: a process is spawned, or a start() call
\* returns at once.
StartCalled ==
    /\ calls' = calls + 1
    /\ \/ spawned' = spawned + 1
       \/ ret'.operation = "start"
\* A start() call is in progress, or the last one has failed.
StartInProgress == \E s \in Starters : starters[s].pc # "idle"
StartHasFailed == spawned >= 1 /\ ~StartInProgress /\ ~initialized

\* C35: whatever the interleaving of tool invocations, at most one
\* TypeScriptLSPClient is constructed and start() is called on it at most once:
\* an invocation that arrives while the first start() is in progress, or after
\* it has failed, constructs no second client and does not call start() again.
C35_OneClientOneStart ==
    /\ [](lspClient <= 1 /\ spawned <= 1)
    /\ [][StartCalled => lspClient = 0 /\ spawned = 0 /\ lspClient' = 1]_vars
    /\ [][(calls' = calls + 1 /\ (StartInProgress \/ StartHasFailed)) =>
             /\ lspClient' = lspClient
             /\ ~StartCalled
             /\ UNCHANGED <<starters, spawned, connection, serverProcess>>
             /\ ret'.operation = "lspGetHover"
             /\ ret'.status = "errorResponse"]_vars

\* C35 witness: a tool has been invoked and refused while the start() of the
\* first invocation awaits the answer to its initialize request.
C35_Witness ==
    /\ lspClient = 1
    /\ spawned = 1
    /\ \E s \in Starters : starters[s].pc = "awaitInit"
    /\ ret.operation = "lspGetHover"
    /\ ret.status = "errorResponse"
    /\ ret.cause = "LSP client is not initialized"
\* C35 witness: a tool has been invoked after the server's answer to initialize
\* was an error and start() failed.
C35_WitnessFailed ==
    /\ lspClient = 1
    /\ spawned = 1
    /\ StartHasFailed
    /\ calls = 3
    /\ ret.operation = "lspGetHover"
    /\ ret.status = "errorResponse"
====
